---- MODULE Spec2Model ----
(***************************************************************************)
(* A model of github-pr-review's paginating, caching fetch engine:         *)
(*   github_api_client.py   parse_github_link_header, GitHubApiClient      *)
(*   local_cache.py         LocalTimeToLiveCache                           *)
(*   pull_request_models.py PullRequestSummary, the batch parser           *)
(*                                                                         *)
(* Text is a sequence of atoms.  An atom is one character the code looks   *)
(* at ("<", ">", ";", ",", "=", "/", a double quote, a blank) or a run of  *)
(* characters none of which the code looks at ("next", "u1", "owner").     *)
(***************************************************************************)
EXTENDS Integers, Sequences, FiniteSets, TLC

VARIABLES
    \* ---- parse_github_link_header, applied to one header
    link_segments,        \* what the server put in the header, in order
    link_header_value,    \* the header text it rendered
    parsed_links,         \* the parser's result
    link_pc,              \* "ready" before the call, "parsed" after it
    \* ---- parse_pull_requests_from_github_payload, applied to one batch
    items,                \* the raw items handed to the batch parser
    pull_requests,        \* what the call gave: Returned(summaries) or Raised(e)
    parse_pc,             \* "ready" before the call, "parsed" after it
    \* ---- LocalTimeToLiveCache: the instances and the file they share
    now,                             \* time.time()
    cache_file,                      \* cache.json
    in_memory_cache,                 \* per instance: hashed key -> CachedValue
    has_loaded_cache_file,           \* per instance
    default_time_to_live_seconds,    \* per instance
    cache_call,                      \* the last call on a store and what it gave
    written,                         \* per instance and key: what its own calls did
    file_reads,                      \* per instance: how often it read the file
    load_snapshot,                   \* per instance: what its load took from the file
    \* ---- GitHubApiClient._perform_request, applied to one response
    http_response,        \* the response the server sent
    request_outcome,      \* Returned(response), or Raised(error)
    request_pc,           \* "ready" before the classification, "classified" after it
    \* ---- GitHubApiClient.list_open_pull_requests
    call,                 \* per call: where it stands, its locals, and what it did
    fetched,              \* cache key -> what the last fetch that wrote the entry returned
    \* ---- GitHubApiClient.list_user_repositories and fetch_rate_limit_status
    single_call,          \* the call of one request: where it stands, and what it did
    \* ---- GET /api/pr/{number}/summary
    summary_request       \* the request: where it stands, and what it was answered

linkVars == <<link_segments, link_header_value, parsed_links, link_pc>>

parseVars == <<items, pull_requests, parse_pc>>

storeVars == <<cache_file, in_memory_cache, has_loaded_cache_file, default_time_to_live_seconds>>

cacheVars == <<now, storeVars, cache_call, written, file_reads, load_snapshot>>

requestVars == <<http_response, request_outcome, request_pc>>

fetchVars == <<call, fetched, single_call, summary_request>>

vars == <<linkVars, parseVars, cacheVars, requestVars, fetchVars>>

(***************************************************************************)
(* Bounds of the model.                                                    *)
(***************************************************************************)
MaxSegs == 2
MaxItems == 3
MaxTime == 2
MaxRequests == 3
MaxIdLen == 4

(***************************************************************************)
(* Text helpers: Python's str methods on sequences of atoms.               *)
(***************************************************************************)
Blank == " "
Quote == "\""

RECURSIVE LStripOf(_, _)
LStripOf(s, ch) ==
    IF s # <<>> /\ Head(s) = ch THEN LStripOf(Tail(s), ch) ELSE s

RECURSIVE RStripOf(_, _)
RStripOf(s, ch) ==
    IF s # <<>> /\ s[Len(s)] = ch THEN RStripOf(SubSeq(s, 1, Len(s) - 1), ch) ELSE s

\* str.strip(ch)
StripOf(s, ch) == RStripOf(LStripOf(s, ch), ch)

\* str.strip()
Strip(s) == StripOf(s, Blank)

\* ch in s
Contains(s, ch) == \E i \in 1..Len(s) : s[i] = ch

\* s.count(ch)
Count(s, ch) == Cardinality({i \in 1..Len(s) : s[i] = ch})

\* s.find(ch), 1-based; 0 when ch is not in s
Find(s, ch) ==
    IF Contains(s, ch) THEN CHOOSE i \in 1..Len(s) : s[i] = ch /\ \A j \in 1..(i - 1) : s[j] # ch
    ELSE 0

\* s.split(ch): always at least one part
RECURSIVE Split(_, _)
Split(s, ch) ==
    LET i == Find(s, ch)
    IN  IF i = 0 THEN <<s>>
        ELSE <<SubSeq(s, 1, i - 1)>> \o Split(SubSeq(s, i + 1, Len(s)), ch)

\* s.split(ch, 1)
SplitOnce(s, ch) ==
    LET i == Find(s, ch)
    IN  IF i = 0 THEN <<s>>
        ELSE <<SubSeq(s, 1, i - 1), SubSeq(s, i + 1, Len(s))>>

\* s.startswith(p)
StartsWith(s, p) == Len(s) >= Len(p) /\ SubSeq(s, 1, Len(p)) = p

\* s.endswith(p)
EndsWith(s, p) == Len(s) >= Len(p) /\ SubSeq(s, Len(s) - Len(p) + 1, Len(s)) = p

\* sep.join(parts)
RECURSIVE Join(_, _)
Join(parts, sep) ==
    IF parts = <<>> THEN <<>>
    ELSE IF Len(parts) = 1 THEN parts[1]
    ELSE parts[1] \o sep \o Join(Tail(parts), sep)

\* [f(x) for x in seq]
MapStrip(parts) == [i \in 1..Len(parts) |-> Strip(parts[i])]

\* [x for x in seq if x]
RECURSIVE NonEmptyOnly(_)
NonEmptyOnly(parts) ==
    IF parts = <<>> THEN <<>>
    ELSE (IF Head(parts) # <<>> THEN <<Head(parts)>> ELSE <<>>) \o NonEmptyOnly(Tail(parts))

(***************************************************************************)
(* A Python dict (and a JSON object): the <<key, value>> pairs in          *)
(* insertion order, no key twice.                                          *)
(***************************************************************************)
EmptyDict == <<>>

DictKeys(d) == {d[i][1] : i \in 1..Len(d)}

\* key in d
DictHas(d, key) == \E i \in 1..Len(d) : d[i][1] = key

\* d[key], for a key of d
DictGet(d, key) == d[CHOOSE i \in 1..Len(d) : d[i][1] = key][2]

\* d[key] = value: a key the dict holds keeps its place
DictPut(d, key, value) ==
    IF DictHas(d, key)
    THEN [i \in 1..Len(d) |-> IF d[i][1] = key THEN <<key, value>> ELSE d[i]]
    ELSE Append(d, <<key, value>>)

\* d.pop(key, None)
RECURSIVE DictPop(_, _)
DictPop(d, key) ==
    IF d = <<>> THEN <<>>
    ELSE (IF Head(d)[1] = key THEN <<>> ELSE <<Head(d)>>) \o DictPop(Tail(d), key)

\* d1 == d2
DictEqual(d1, d2) ==
    /\ DictKeys(d1) = DictKeys(d2)
    /\ \A k \in DictKeys(d1) : DictGet(d1, k) = DictGet(d2, k)

(***************************************************************************)
(* parse_github_link_header (github_api_client.py 39-64).                  *)
(***************************************************************************)
RelPrefix == <<"rel", "=">>

\* lines 54-59: the first parameter that starts with rel= decides, also when
\* its value is empty; None is modelled as the empty text (both are falsy).
RECURSIVE RelationOf(_)
RelationOf(parameter_parts) ==
    IF parameter_parts = <<>> THEN <<>>
    ELSE IF StartsWith(Head(parameter_parts), RelPrefix)
         THEN StripOf(Strip(SplitOnce(Head(parameter_parts), "=")[2]), Quote)
         ELSE RelationOf(Tail(parameter_parts))

\* lines 46-62: one segment's effect on the mapping
ParseLinkSegmentCore(parsed, link_segment, keep_first) ==
    IF ~Contains(link_segment, ";") THEN parsed
    ELSE LET parts    == MapStrip(Split(link_segment, ";"))
             url_part == parts[1]
             parameter_parts == Tail(parts)
         IN  IF ~(StartsWith(url_part, <<"<">>) /\ EndsWith(url_part, <<">">>)) THEN parsed
             ELSE LET url_value     == Strip(SubSeq(url_part, 2, Len(url_part) - 1))
                      relation_type == RelationOf(parameter_parts)
                  IN  IF relation_type # <<>> /\ ~(keep_first /\ DictHas(parsed, relation_type))
                      THEN DictPut(parsed, relation_type, url_value)
                      ELSE parsed

\* A parser that keeps the first of two segments with one relation name.
ParseLinkSegmentFirstWins(parsed, link_segment) ==
    ParseLinkSegmentCore(parsed, link_segment, TRUE)

ParseLinkSegment(parsed, link_segment) ==
    ParseLinkSegmentCore(parsed, link_segment, FALSE)

RECURSIVE ParseLinkSegments(_, _)
ParseLinkSegments(parsed, segments) ==
    IF segments = <<>> THEN parsed
    ELSE ParseLinkSegments(ParseLinkSegment(parsed, Head(segments)), Tail(segments))

parse_github_link_header(header) ==
    IF header = <<>> THEN EmptyDict
    ELSE ParseLinkSegments(EmptyDict, NonEmptyOnly(MapStrip(Split(header, ","))))

(***************************************************************************)
(* The headers a server can send: each segment is a target and a list of   *)
(* parameters, written the way RFC 8288 writes them.                       *)
(***************************************************************************)
NoUrl == <<"no-url">>

Param(name, value, quoted) == [name |-> name, value |-> value, quoted |-> quoted]

Segment(url, bracketed, params) == [url |-> url, bracketed |-> bracketed, params |-> params]

RenderParam(p) ==
    p.name \o <<"=">> \o (IF p.quoted THEN <<Quote>> \o p.value \o <<Quote>> ELSE p.value)

RenderSegment(seg) ==
    LET target == IF seg.url = NoUrl THEN <<>>
                  ELSE IF seg.bracketed THEN <<(<<"<">> \o seg.url \o <<">">>)>>
                  ELSE <<seg.url>>
        params == [i \in 1..Len(seg.params) |-> RenderParam(seg.params[i])]
    IN  Join(target \o params, <<";", Blank>>)

RenderLinkHeader(segs) ==
    Join([i \in 1..Len(segs) |-> RenderSegment(segs[i])], <<",", Blank>>)

RelNext == Param(<<"rel">>, <<"next">>, TRUE)
RelLast == Param(<<"rel">>, <<"last">>, TRUE)

SegmentPool ==
    { Segment(<<"u1">>, TRUE, <<RelNext>>),
      Segment(<<"u2">>, TRUE, <<Param(<<"rel">>, <<"next">>, FALSE)>>),
      Segment(<<"u3">>, TRUE, <<RelLast>>),
      Segment(<<"u4">>, TRUE, <<Param(<<"title">>, <<"x">>, TRUE), RelLast>>),
      Segment(<<"u5">>, TRUE, <<>>),
      Segment(<<"u6">>, TRUE, <<Param(<<"title">>, <<"x">>, FALSE)>>),
      Segment(NoUrl, TRUE, <<RelNext>>),
      Segment(<<"u7">>, FALSE, <<RelNext>>),
      Segment(<<"u8">>, TRUE, <<Param(<<"rel">>, <<>>, TRUE)>>),
      Segment(NoUrl, TRUE, <<>>) }

RECURSIVE SeqsUpTo(_, _)
SeqsUpTo(S, n) ==
    IF n = 0 THEN {<<>>}
    ELSE LET shorter == SeqsUpTo(S, n - 1)
         IN  shorter \cup {Append(s, x) : s \in {t \in shorter : Len(t) = n - 1}, x \in S}

LinkInit ==
    /\ link_segments \in SeqsUpTo(SegmentPool, MaxSegs)
    /\ link_header_value = RenderLinkHeader(link_segments)
    /\ parsed_links = EmptyDict
    /\ link_pc = "ready"

\* The link parser at rest, in the specifications of the other components.
LinkIdle ==
    /\ link_segments = <<>>
    /\ link_header_value = <<>>
    /\ parsed_links = EmptyDict
    /\ link_pc = "parsed"

ParseLinkHeader ==
    /\ link_pc = "ready"
    /\ parsed_links' = parse_github_link_header(link_header_value)
    /\ link_pc' = "parsed"
    /\ UNCHANGED <<link_segments, link_header_value>>

(***************************************************************************)
(* JSON values and the Python built-ins the code applies to them.  A value *)
(* is <<tag>> or <<tag, payload>>; an object's payload is a dict whose     *)
(* keys are field names.                                                   *)
(***************************************************************************)
JNull == <<"null">>
JInt(n) == <<"int", n>>
JStr(s) == <<"str", s>>
JBool(b) == <<"bool", b>>
JList(l) == <<"list", l>>
JDict(d) == <<"dict", d>>

IsDict(j) == j[1] = "dict"
IsList(j) == j[1] = "list"

\* bool(j)
Truthy(j) ==
    CASE j[1] = "null" -> FALSE
      [] j[1] = "int"  -> j[2] # 0
      [] j[1] = "bool" -> j[2]
      [] OTHER         -> j[2] # <<>>

Digits == <<"0", "1", "2", "3", "4", "5", "6", "7", "8", "9">>

DigitValue(a) == (CHOOSE i \in 1..10 : Digits[i] = a) - 1

IsDigit(a) == \E i \in 1..10 : Digits[i] = a

\* str(n) for n >= 0
RECURSIVE IntStr(_)
IntStr(n) == IF n < 10 THEN <<Digits[n + 1]>> ELSE IntStr(n \div 10) \o <<Digits[(n % 10) + 1]>>

\* the value of a text of digits
RECURSIVE DigitsValue(_)
DigitsValue(s) ==
    IF s = <<>> THEN 0 ELSE 10 * DigitsValue(SubSeq(s, 1, Len(s) - 1)) + DigitValue(s[Len(s)])

\* str(j)
PyStr(j) ==
    CASE j[1] = "str"  -> j[2]
      [] j[1] = "int"  -> IntStr(j[2])
      [] j[1] = "bool" -> IF j[2] THEN <<"True">> ELSE <<"False">>
      [] j[1] = "null" -> <<"None">>
      [] OTHER         -> <<"repr">>

\* What a call gives: a value, or the exception it raised.
Returned(v) == <<"returned", v>>
Raised(e) == <<"raised", e>>
IsRaised(r) == r[1] = "raised"

\* int(j)
PyInt(j) ==
    CASE j[1] = "int"  -> Returned(j[2])
      [] j[1] = "bool" -> Returned(IF j[2] THEN 1 ELSE 0)
      [] j[1] = "str"  -> LET text == Strip(j[2])
                          IN  IF text # <<>> /\ \A i \in 1..Len(text) : IsDigit(text[i])
                              THEN Returned(DigitsValue(text))
                              ELSE Raised("ValueError")
      [] OTHER         -> Raised("TypeError")

\* payload.get(key, default), for an object
JGet(payload, key, default) ==
    IF DictHas(payload[2], key) THEN DictGet(payload[2], key) ELSE default

(***************************************************************************)
(* pull_request_models.py                                                  *)
(***************************************************************************)
IsoDateTimes == {"2024-01-01T00:00:00", "2024-02-02T00:00:00"}

UtcOffset == "+00:00"

\* datetime.fromisoformat, on the texts the model holds: a date-time atom,
\* alone or followed by an offset atom
FromIsoFormat(text) ==
    IF Len(text) = 1 /\ text[1] \in IsoDateTimes THEN Returned(<<text[1], "naive">>)
    ELSE IF Len(text) = 2 /\ text[1] \in IsoDateTimes /\ text[2] = UtcOffset
         THEN Returned(<<text[1], UtcOffset>>)
    ELSE Raised("ValueError")

\* PullRequestSummary._parse_github_datetime (23-27)
ParseGithubDatetime(iso_datetime_string) ==
    LET stripped == Strip(iso_datetime_string)
        normalized_value ==
            IF EndsWith(stripped, <<"Z">>)
            THEN SubSeq(stripped, 1, Len(stripped) - 1) \o <<UtcOffset>>
            ELSE stripped
    IN  FromIsoFormat(normalized_value)

\* lines 32-36: the names of the labels; iterating a text or an object gives
\* no label objects, iterating a number or a boolean raises
RECURSIVE LabelNames(_)
LabelNames(labels) ==
    IF labels = <<>> THEN <<>>
    ELSE LET label_object == Head(labels)
             name == IF IsDict(label_object)
                     THEN Strip(PyStr(JGet(label_object, "name", JStr(<<>>))))
                     ELSE <<>>
         IN  (IF name # <<>> THEN <<name>> ELSE <<>>) \o LabelNames(Tail(labels))

LabelNamesOf(labels_payload) ==
    CASE labels_payload[1] = "list" -> Returned(LabelNames(labels_payload[2]))
      [] labels_payload[1] \in {"str", "dict"} -> Returned(<<>>)
      [] OTHER -> Raised("TypeError")

OrDefault(text, default) == IF text # <<>> THEN text ELSE default

\* PullRequestSummary.from_github_api_response (29-54), the steps in the
\* order the code evaluates them; the first one that raises ends the call
FromGithubApiResponse(pull_request_payload) ==
    IF ~IsDict(pull_request_payload) THEN Raised("AttributeError")
    ELSE
    LET got_labels == JGet(pull_request_payload, "labels", JNull)
        labels_payload == IF Truthy(got_labels) THEN got_labels ELSE JList(<<>>)
        label_names == LabelNamesOf(labels_payload)
        got_user == JGet(pull_request_payload, "user", JNull)
        user_payload == IF Truthy(got_user) THEN got_user ELSE JDict(EmptyDict)
        number == IF DictHas(pull_request_payload[2], "number")
                  THEN PyInt(DictGet(pull_request_payload[2], "number"))
                  ELSE Raised("KeyError")
        created_at == ParseGithubDatetime(
                          Strip(PyStr(JGet(pull_request_payload, "created_at", JStr(<<>>)))))
        updated_at == ParseGithubDatetime(
                          Strip(PyStr(JGet(pull_request_payload, "updated_at", JStr(<<>>)))))
        got_body == JGet(pull_request_payload, "body", JStr(<<>>))
    IN  IF IsRaised(label_names) THEN label_names
        ELSE IF ~IsDict(user_payload) THEN Raised("AttributeError")
        ELSE IF IsRaised(number) THEN number
        ELSE IF IsRaised(created_at) THEN created_at
        ELSE IF IsRaised(updated_at) THEN updated_at
        ELSE Returned(
            [ pull_request_number |-> number[2],
              title |-> Strip(PyStr(JGet(pull_request_payload, "title", JStr(<<>>)))),
              author_login |-> OrDefault(Strip(PyStr(JGet(user_payload, "login", JStr(<<>>)))),
                                         <<"unknown">>),
              author_avatar_url |-> Strip(PyStr(JGet(user_payload, "avatar_url", JStr(<<>>)))),
              html_url |-> Strip(PyStr(JGet(pull_request_payload, "html_url", JStr(<<>>)))),
              label_names |-> label_names[2],
              is_draft |-> Truthy(JGet(pull_request_payload, "draft", JBool(FALSE))),
              state |-> OrDefault(Strip(PyStr(JGet(pull_request_payload, "state", JStr(<<>>)))),
                                  <<"unknown">>),
              created_at |-> created_at[2],
              updated_at |-> updated_at[2],
              body |-> PyStr(IF Truthy(got_body) THEN got_body ELSE JStr(<<>>)) ])

\* The exceptions the code's steps raise; all are subclasses of Exception.
ExceptionClasses == {"AttributeError", "KeyError", "TypeError", "ValueError"}

\* A batch parser whose handler catches ValueError alone.
CaughtValueErrorOnly(exception) == exception = "ValueError"

\* line 62, except Exception
Caught(exception) == exception \in ExceptionClasses

\* parse_pull_requests_from_github_payload (57-64)
RECURSIVE ParseItemsInto(_, _)
ParseItemsInto(summaries, item_payloads) ==
    IF item_payloads = <<>> THEN Returned(summaries)
    ELSE LET one == FromGithubApiResponse(Head(item_payloads))
         IN  IF IsRaised(one)
             THEN IF Caught(one[2]) THEN ParseItemsInto(summaries, Tail(item_payloads)) ELSE one
             ELSE ParseItemsInto(Append(summaries, one[2]), Tail(item_payloads))

parse_pull_requests_from_github_payload(item_payloads) == ParseItemsInto(<<>>, item_payloads)

(***************************************************************************)
(* The items a server (or a cache file) can hold.                          *)
(***************************************************************************)
GoodDate == JStr(<<"2024-01-01T00:00:00", "Z">>)
OffsetDate == JStr(<<Blank, "2024-02-02T00:00:00", UtcOffset>>)

Field(name, value) == <<name, value>>

ItemGood1 ==
    JDict(<< Field("number", JInt(1)), Field("title", JStr(<<"t1">>)),
             Field("user", JDict(<<Field("login", JStr(<<"alice">>))>>)),
             Field("labels", JList(<< JDict(<<Field("name", JStr(<<"bug">>))>>),
                                      JDict(<<Field("name", JStr(<<Blank>>))>>),
                                      JStr(<<"loose">>) >>)),
             Field("created_at", GoodDate), Field("updated_at", OffsetDate) >>)

ItemGood2 ==
    JDict(<< Field("number", JStr(<<"2">>)), Field("user", JNull), Field("draft", JBool(TRUE)),
             Field("created_at", OffsetDate), Field("updated_at", GoodDate) >>)

ItemNonNumericNumber ==
    JDict(<< Field("number", JStr(<<"x">>)),
             Field("created_at", GoodDate), Field("updated_at", GoodDate) >>)

ItemNoNumber ==
    JDict(<< Field("title", JStr(<<"t4">>)),
             Field("created_at", GoodDate), Field("updated_at", GoodDate) >>)

ItemBadCreatedAt ==
    JDict(<< Field("number", JInt(5)),
             Field("created_at", JStr(<<"yesterday">>)), Field("updated_at", GoodDate) >>)

ItemNoUpdatedAt ==
    JDict(<< Field("number", JInt(6)), Field("created_at", GoodDate) >>)

ItemLabelsNotIterable ==
    JDict(<< Field("number", JInt(7)), Field("labels", JInt(5)),
             Field("created_at", GoodDate), Field("updated_at", GoodDate) >>)

ItemUserNotObject ==
    JDict(<< Field("number", JInt(8)), Field("user", JStr(<<"bob">>)),
             Field("created_at", GoodDate), Field("updated_at", GoodDate) >>)

ItemNotObject == JStr(<<"9">>)

ItemPool ==
    { ItemGood1, ItemGood2, ItemNonNumericNumber, ItemNoNumber, ItemBadCreatedAt,
      ItemNoUpdatedAt, ItemLabelsNotIterable, ItemUserNotObject, ItemNotObject }

ParseInit ==
    /\ items \in SeqsUpTo(ItemPool, MaxItems)
    /\ pull_requests = Returned(<<>>)
    /\ parse_pc = "ready"

ParsePullRequests ==
    /\ parse_pc = "ready"
    /\ pull_requests' = parse_pull_requests_from_github_payload(items)
    /\ parse_pc' = "parsed"
    /\ UNCHANGED items

\* The batch parser at rest, in the specifications of the other components.
ParseIdle ==
    /\ items = <<>>
    /\ pull_requests = Returned(<<>>)
    /\ parse_pc = "parsed"

(***************************************************************************)
(* local_cache.py: LocalTimeToLiveCache.                                   *)
(*                                                                         *)
(* cache.json is absent, out of reach (its directory cannot be searched, so *)
(* that stat fails with EACCES), unreadable, text that is no JSON (garbled, *)
(* which a torn write leaves), or the JSON value it holds.                 *)
(***************************************************************************)
Stores == {"s1", "s2"}

NoFile == <<"absent">>
OutOfReach == <<"out_of_reach">>
Unreadable == <<"unreadable">>
Garbled == <<"garbled">>
FileJson(j) == <<"json", j>>

\* A digest that is the same for every key.
HashCacheKeyColliding(cache_key) == <<"sha256">>

\* _hash_cache_key (32-34): SHA-256 taken as collision-free
HashCacheKey(cache_key) == <<"sha256">> \o cache_key

\* CachedValue (13-16)
CachedValue(value, expires_at) == <<value, expires_at>>

ExpiresKey == "expires_at_unix_epoch_seconds"

\* float(j)
PyFloat(j) ==
    CASE j[1] = "int"  -> Returned(j[2])
      [] j[1] = "bool" -> Returned(IF j[2] THEN 1 ELSE 0)
      [] j[1] = "str"  -> LET text == Strip(j[2])
                          IN  IF text # <<>> /\ \A i \in 1..Len(text) : IsDigit(text[i])
                              THEN Returned(DigitsValue(text))
                              ELSE Raised("ValueError")
      [] OTHER         -> Raised("TypeError")

\* Path.exists (41, 105): stat, whose ENOENT means False and whose EACCES
\* is raised
PathExists(file) ==
    IF file = OutOfReach THEN Raised("OSError") ELSE Returned(file # NoFile)

\* Path.read_text (45)
ReadText(file) == IF file = Unreadable THEN Raised("OSError") ELSE Returned(file)

\* json.loads (46)
JsonLoads(file) == IF file[1] = "json" THEN Returned(file[2]) ELSE Raised("ValueError")

\* lines 50-55: the entries of the file in the file's order; the first entry
\* whose expiry float() rejects ends the loop, keeping what was loaded so far
RECURSIVE LoadEntries(_, _)
LoadEntries(memory, entries) ==
    IF entries = <<>> THEN [memory |-> memory, raised |-> "none"]
    ELSE LET hashed_key    == Head(entries)[1]
             stored_object == Head(entries)[2]
         IN  IF ~IsDict(stored_object) THEN LoadEntries(memory, Tail(entries))
             ELSE LET expires_at == PyFloat(JGet(stored_object, ExpiresKey, JInt(0)))
                      value      == JGet(stored_object, "value", JNull)
                  IN  IF IsRaised(expires_at)
                      THEN [memory |-> memory, raised |-> expires_at[2]]
                      ELSE LoadEntries(DictPut(memory, hashed_key,
                                               CachedValue(value, expires_at[2])),
                                       Tail(entries))

\* lines 44-55, the body of the try
LoadTry(memory, file) ==
    LET raw_text == ReadText(file)
    IN  IF IsRaised(raw_text) THEN [memory |-> memory, raised |-> raw_text[2]]
        ELSE LET parsed_json == JsonLoads(raw_text[2])
             IN  IF IsRaised(parsed_json) THEN [memory |-> memory, raised |-> parsed_json[2]]
                 ELSE IF ~IsDict(parsed_json[2]) THEN [memory |-> memory, raised |-> "none"]
                 ELSE LoadEntries(memory, parsed_json[2][2])

\* The exceptions file and JSON handling raise; all are subclasses of Exception.
IoExceptionClasses == {"OSError", "ValueError", "TypeError"}

\* lines 56, 73, 107: except Exception
Swallowed(exception) == exception \in IoExceptionClasses

\* A load that does not remember that it ran.
LoadedFlagAfterLoadForgotten == FALSE

\* line 39
LoadedFlagAfterLoad == TRUE

\* _load_cache_file_if_needed (36-57) on one instance st = [memory, loaded]:
\* the instance after the call, whether the file was read, what escaped
LoadCacheFileIfNeeded(st, file) ==
    IF st.loaded THEN [memory |-> st.memory, loaded |-> TRUE, read |-> FALSE, raised |-> "none"]
    ELSE IF IsRaised(PathExists(file))
         THEN [memory |-> st.memory, loaded |-> LoadedFlagAfterLoad, read |-> FALSE,
               raised |-> PathExists(file)[2]]
    ELSE IF ~PathExists(file)[2]
         THEN [memory |-> st.memory, loaded |-> LoadedFlagAfterLoad, read |-> FALSE,
               raised |-> "none"]
    ELSE LET try == LoadTry(st.memory, file)
         IN  [memory |-> try.memory, loaded |-> LoadedFlagAfterLoad, read |-> TRUE,
              raised |-> IF try.raised # "none" /\ ~Swallowed(try.raised)
                         THEN try.raised ELSE "none"]

\* lines 61-70: the entries that have not expired, as JSON
RECURSIVE SerializableCache(_, _)
SerializableCache(memory, current_time) ==
    IF memory = <<>> THEN <<>>
    ELSE LET hashed_key   == Head(memory)[1]
             cached_value == Head(memory)[2]
         IN  (IF cached_value[2] <= current_time THEN <<>>
              ELSE << <<hashed_key, JDict(<< <<ExpiresKey, JInt(cached_value[2])>>,
                                             <<"value", cached_value[1]>> >>)>> >>)
             \o SerializableCache(Tail(memory), current_time)

\* What a write to cache.json can do: succeed, fail before it touches the
\* file, or fail after it truncated the file.
WriteOutcomes == {"ok", "denied", "torn"}

\* _persist_cache_file (59-74): the file after the call, what escaped
PersistCacheFile(memory, current_time, file, io) ==
    LET failure == IF io = "ok" THEN "none" ELSE "OSError"
    IN  [file   |-> CASE io = "ok"     -> FileJson(JDict(SerializableCache(memory, current_time)))
                      [] io = "torn"   -> Garbled
                      [] OTHER         -> file,
         raised |-> IF failure # "none" /\ ~Swallowed(failure) THEN failure ELSE "none"]

\* A get that lets an entry live through the second at which it expires.
IsExpiredOneSecondLate(cached_value, current_time) == cached_value[2] < current_time

\* line 84
IsExpired(cached_value, current_time) == cached_value[2] <= current_time

\* get_cached_value (76-89); None is JNull.  io is what the write does if
\* the call persists, "none" if it does not
GetCachedValue(st, file, current_time, cache_key, io) ==
    LET load == LoadCacheFileIfNeeded(st, file)
        hashed_key == HashCacheKey(cache_key)
        base == [memory |-> load.memory, loaded |-> load.loaded, file |-> file,
                 read |-> load.read, persisted |-> FALSE, result |-> Returned(JNull)]
    IN  IF load.raised # "none" THEN [base EXCEPT !.result = Raised(load.raised)]
        ELSE IF ~DictHas(load.memory, hashed_key) THEN base
        ELSE LET cached_value == DictGet(load.memory, hashed_key)
             IN  IF IsExpired(cached_value, current_time)
                 THEN LET popped  == DictPop(load.memory, hashed_key)
                          persist == PersistCacheFile(popped, current_time, file, io)
                      IN  [memory |-> popped, loaded |-> load.loaded, file |-> persist.file,
                           read |-> load.read, persisted |-> TRUE,
                           result |-> IF persist.raised # "none" THEN Raised(persist.raised)
                                      ELSE Returned(JNull)]
                 ELSE [base EXCEPT !.result = Returned(cached_value[1])]

NoTtl == <<"none">>

\* line 93; the ttl is NoTtl or <<"int", n>>
\* A set that takes the lifetime it is given as it is.
EffectiveTtlAsGiven(default_ttl, time_to_live_seconds) ==
    IF time_to_live_seconds = NoTtl THEN default_ttl ELSE time_to_live_seconds[2]

EffectiveTtl(default_ttl, time_to_live_seconds) ==
    IF time_to_live_seconds = NoTtl THEN default_ttl
    ELSE IF time_to_live_seconds[2] > 1 THEN time_to_live_seconds[2] ELSE 1

\* set_cached_value (91-100)
\* A set that leaves an entry that is there alone.
MemoryAfterSetKeepingTheFirst(memory, hashed_key, cached_value) ==
    IF DictHas(memory, hashed_key) THEN memory ELSE DictPut(memory, hashed_key, cached_value)

\* lines 96-99: self.in_memory_cache[hashed_key] = CachedValue(...)
MemoryAfterSet(memory, hashed_key, cached_value) == DictPut(memory, hashed_key, cached_value)

SetCachedValue(st, file, current_time, default_ttl, cache_key, value, time_to_live_seconds, io) ==
    LET load == LoadCacheFileIfNeeded(st, file)
        hashed_key == HashCacheKey(cache_key)
        effective_ttl == EffectiveTtl(default_ttl, time_to_live_seconds)
        memory == MemoryAfterSet(load.memory, hashed_key,
                                 CachedValue(value, current_time + effective_ttl))
        persist == PersistCacheFile(memory, current_time, file, io)
    IN  IF load.raised # "none"
        THEN [memory |-> load.memory, loaded |-> load.loaded, file |-> file,
              read |-> load.read, persisted |-> FALSE, result |-> Raised(load.raised)]
        ELSE [memory |-> memory, loaded |-> load.loaded, file |-> persist.file,
              read |-> load.read, persisted |-> TRUE,
              result |-> IF persist.raised # "none" THEN Raised(persist.raised)
                         ELSE Returned(JNull)]

\* What unlinking cache.json can do.
UnlinkOutcomes == {"ok", "denied"}

\* A clear that leaves the in-memory map as it was.
MemoryAfterClearKept(memory) == memory

\* line 103: dict.clear()
MemoryAfterClear(memory) == <<>>

\* clear_all_cached_values (102-108); io is "none" when unlink is not called
ClearAllCachedValues(st, file, io) ==
    LET exists == PathExists(file)
        failure == IF IsRaised(exists) THEN exists[2]
                   ELSE IF exists[2] /\ io = "denied" THEN "OSError" ELSE "none"
    IN  [memory |-> MemoryAfterClear(st.memory), loaded |-> st.loaded,
         file |-> IF exists = Returned(TRUE) /\ io = "ok" THEN NoFile ELSE file,
         read |-> FALSE, persisted |-> FALSE,
         result |-> IF failure # "none" /\ ~Swallowed(failure) THEN Raised(failure)
                    ELSE Returned(JNull)]

(***************************************************************************)
(* The cache store on its own: callers of get, set and clear on two        *)
(* instances that share cache.json, and the clock.                         *)
(***************************************************************************)
KeyPool == {<<"k1">>, <<"k2">>}

\* the value a caller stores under a key: each key has its own
ValueFor(cache_key) == IF cache_key = <<"k1">> THEN JStr(<<"a">>) ELSE JStr(<<"b">>)

TtlPool == {NoTtl, JInt(0)}

\* CACHE_TIME_TO_LIVE_SECONDS as configured
ConfiguredTtls == {0, 2}

OldEntry == JDict(<< <<ExpiresKey, JInt(2)>>, <<"value", JStr(<<"old">>)>> >>)
BadExpiryEntry == JDict(<< <<ExpiresKey, JStr(<<"soon">>)>>, <<"value", JStr(<<"odd">>)>> >>)

\* cache.json as an earlier process, or another program, can have left it
InitialFiles ==
    { NoFile, OutOfReach, Garbled, Unreadable,
      FileJson(JList(<<>>)),
      FileJson(JDict(<< <<HashCacheKey(<<"k1">>), OldEntry>> >>)),
      FileJson(JDict(<< <<HashCacheKey(<<"k0">>), JStr(<<"text">>)>>,
                        <<HashCacheKey(<<"k1">>), OldEntry>>,
                        <<HashCacheKey(<<"k2">>), BadExpiryEntry>> >>)),
      FileJson(JDict(<< <<HashCacheKey(<<"k2">>), BadExpiryEntry>>,
                        <<HashCacheKey(<<"k1">>), OldEntry>> >>)) }

\* What an instance's own calls did to a key, as its caller knows it:
\* <<"never">>, <<"set", value, expiry, whether the write went through>>,
\* <<"expired">>, <<"cleared">>
Mark(tag, value, expires_at, persisted) == <<tag, value, expires_at, persisted>>
NeverSet == Mark("never", JNull, 0, TRUE)
SeenExpired == Mark("expired", JNull, 0, TRUE)
Cleared == Mark("cleared", JNull, 0, TRUE)

\* evicting: the call is a get of a key that this instance set and whose
\* lifetime is over
NoCall == [op |-> "none", store |-> "none", key |-> <<>>, io |-> "none",
           evicting |-> FALSE, result |-> Returned(JNull)]

InstanceOf(store) == [memory |-> in_memory_cache[store], loaded |-> has_loaded_cache_file[store]]

\* LocalTimeToLiveCache.__init__ (20-27), and the ghosts at their start
CacheInit ==
    /\ now = 0
    /\ cache_file \in InitialFiles
    /\ in_memory_cache = [s \in Stores |-> <<>>]
    /\ has_loaded_cache_file = [s \in Stores |-> FALSE]
    /\ \E configured \in ConfiguredTtls :
           default_time_to_live_seconds =
               [s \in Stores |-> IF configured > 1 THEN configured ELSE 1]
    /\ cache_call = NoCall
    /\ written = [s \in Stores |-> [k \in KeyPool |-> NeverSet]]
    /\ file_reads = [s \in Stores |-> 0]
    /\ load_snapshot = [s \in Stores |-> <<>>]

\* The store's variables after a call that gave r on instance store.
StoreUpdate(store, r) ==
    /\ in_memory_cache' = [in_memory_cache EXCEPT ![store] = r.memory]
    /\ has_loaded_cache_file' = [has_loaded_cache_file EXCEPT ![store] = r.loaded]
    /\ cache_file' = r.file
    /\ file_reads' = [file_reads EXCEPT ![store] = @ + (IF r.read THEN 1 ELSE 0)]
    /\ load_snapshot' =
           IF r.read /\ file_reads[store] = 0
           THEN [load_snapshot EXCEPT ![store] = LoadCacheFileIfNeeded(InstanceOf(store), cache_file).memory]
           ELSE load_snapshot
    /\ UNCHANGED default_time_to_live_seconds

\* A get that gave r: the guards that tie io to what the call did, the store
\* after it, and the ghosts.
GetGave(store, cache_key, io, r, before) ==
    /\ r.persisted <=> io # "none"
    /\ cache_file = OutOfReach /\ r.persisted => io = "denied"
    /\ StoreUpdate(store, r)
    /\ written' = IF before[1] = "set" /\ now >= before[3]
                  THEN [written EXCEPT ![store][cache_key] = SeenExpired]
                  ELSE written
    /\ cache_call' = [op |-> "get", store |-> store, key |-> cache_key, io |-> io,
                      evicting |-> (before[1] = "set" /\ now >= before[3]),
                      result |-> r.result]
    /\ UNCHANGED now

CacheGet(store, cache_key) ==
    \E io \in WriteOutcomes \cup {"none"} :
        GetGave(store, cache_key, io,
                GetCachedValue(InstanceOf(store), cache_file, now, cache_key, io),
                written[store][cache_key])

\* A set of value that gave r.
SetGave(store, cache_key, value, lifetime, io, r) ==
    /\ r.persisted <=> io # "none"
    /\ cache_file = OutOfReach /\ r.persisted => io = "denied"
    /\ StoreUpdate(store, r)
    /\ written' = IF r.persisted
                  THEN [written EXCEPT ![store][cache_key] =
                            Mark("set", value, now + lifetime, io = "ok")]
                  ELSE written
    /\ cache_call' = [op |-> "set", store |-> store, key |-> cache_key, io |-> io,
                      evicting |-> FALSE, result |-> r.result]
    /\ UNCHANGED now

CacheSet(store, cache_key) ==
    \E ttl \in TtlPool, io \in WriteOutcomes \cup {"none"} :
        SetGave(store, cache_key, ValueFor(cache_key),
                IF ttl = NoTtl THEN default_time_to_live_seconds[store]
                ELSE IF ttl[2] < 1 THEN 1 ELSE ttl[2],
                io,
                SetCachedValue(InstanceOf(store), cache_file, now,
                               default_time_to_live_seconds[store], cache_key,
                               ValueFor(cache_key), ttl, io))

\* A clear that gave r.
ClearGave(store, io, r) ==
    /\ (PathExists(cache_file) = Returned(TRUE)) <=> io # "none"
    /\ StoreUpdate(store, r)
    /\ written' = [written EXCEPT ![store] = [k \in KeyPool |-> Cleared]]
    /\ cache_call' = [op |-> "clear", store |-> store, key |-> <<>>, io |-> io,
                      evicting |-> FALSE, result |-> r.result]
    /\ UNCHANGED now

CacheClear(store) ==
    \E io \in UnlinkOutcomes \cup {"none"} :
        ClearGave(store, io, ClearAllCachedValues(InstanceOf(store), cache_file, io))

\* The files another writer of cache.json leaves behind.
OtherWriterFiles ==
    { NoFile,
      FileJson(JDict(<< <<HashCacheKey(<<"k1">>),
                          JDict(<< <<ExpiresKey, JInt(MaxTime + 1)>>,
                                   <<"value", JStr(<<"other">>)>> >>)>> >>)) }

\* another process writes or removes cache.json
OtherWriter ==
    /\ cache_file' \in OtherWriterFiles
    /\ cache_file' # cache_file
    /\ cache_call' = NoCall
    /\ UNCHANGED <<now, in_memory_cache, has_loaded_cache_file, default_time_to_live_seconds,
                   written, file_reads, load_snapshot>>

\* time passes
Tick ==
    /\ now < MaxTime
    /\ now' = now + 1
    /\ cache_call' = NoCall
    /\ UNCHANGED <<storeVars, written, file_reads, load_snapshot>>

\* The cache store at rest, in the specifications of the pure functions.
CacheIdle ==
    /\ now = 0
    /\ cache_file = NoFile
    /\ in_memory_cache = [s \in Stores |-> <<>>]
    /\ has_loaded_cache_file = [s \in Stores |-> FALSE]
    /\ default_time_to_live_seconds = [s \in Stores |-> 1]
    /\ cache_call = NoCall
    /\ written = [s \in Stores |-> [k \in KeyPool |-> NeverSet]]
    /\ file_reads = [s \in Stores |-> 0]
    /\ load_snapshot = [s \in Stores |-> <<>>]

(***************************************************************************)
(* github_api_client.py: the responses of the server and their             *)
(* classification by _perform_request.                                     *)
(*                                                                         *)
(* A response is its status code, the X-RateLimit-Remaining and             *)
(* X-RateLimit-Reset headers (a text, or NoHeader), the segments of its    *)
(* Link header, and its body as response.json() gives it.                  *)
(***************************************************************************)
NoHeader == <<"no-header">>

NotJson == Raised("JSONDecodeError")

Response(status_code, remaining, reset, link, body) ==
    [status_code |-> status_code, remaining |-> remaining, reset |-> reset,
     link |-> link, body |-> body]

\* _read_integer_header (67-74)
ReadIntegerHeader(header_value) ==
    IF header_value = NoHeader \/ header_value = <<>> THEN JNull
    ELSE LET parsed == PyInt(JStr(header_value))
         IN  IF IsRaised(parsed) THEN JNull ELSE JInt(parsed[2])

\* str.lower(), atom by atom
LowerAtom(a) ==
    CASE a = "API Rate Limit" -> "api rate limit"
      [] a = "Forbidden"      -> "forbidden"
      [] OTHER                -> a

Lower(text) == [i \in 1..Len(text) |-> LowerAtom(text[i])]

\* "rate limit" in text: the atoms of which "rate limit" is a part
MentionsRateLimit(text) ==
    \E i \in 1..Len(text) : text[i] \in {"rate limit", "api rate limit"}

\* lines 116-120
ErrorMessageOf(response) ==
    IF IsRaised(response.body) THEN <<>>
    ELSE LET payload == IF Truthy(response.body[2]) THEN response.body[2] ELSE JDict(EmptyDict)
         IN  IF ~IsDict(payload) THEN <<>>
             ELSE PyStr(JGet(payload, "message", JStr(<<>>)))

\* f"HTTP {response.status_code}"
HttpStatusText(status_code) == JStr(<<"HTTP", Blank>> \o IntStr(status_code))

\* lines 129-133
ApiMessageOf(response) ==
    IF IsRaised(response.body) \/ ~IsDict(response.body[2])
    THEN HttpStatusText(response.status_code)
    ELSE JGet(response.body[2], "message", HttpStatusText(response.status_code))

ApiError(class, message, reset_unix_epoch_seconds) ==
    [class |-> class, message |-> message,
     reset_unix_epoch_seconds |-> reset_unix_epoch_seconds]

\* A classification that reads the rate limit from the header alone.
IsRateLimitedByHeaderOnly(remaining_requests, error_message) ==
    remaining_requests = JInt(0)

\* line 122
IsRateLimited(remaining_requests, error_message) ==
    remaining_requests = JInt(0) \/ MentionsRateLimit(Lower(error_message))

\* _perform_request (103-136), from the response on
\* A client for which only a 401 is an error.
PerformRequestRaisingOn401Only(response) ==
    IF response.status_code = 401
    THEN Raised(ApiError("GitHubAuthenticationError",
                         JStr(<<"Unauthorized (401). Check your GITHUB_TOKEN.">>), JNull))
    ELSE Returned(response)

PerformRequest(response) ==
    IF response.status_code = 401
    THEN Raised(ApiError("GitHubAuthenticationError",
                         JStr(<<"Unauthorized (401). Check your GITHUB_TOKEN.">>), JNull))
    ELSE IF response.status_code = 404
    THEN Raised(ApiError("GitHubRepositoryNotFoundError",
                         JStr(<<"Not found (404). Check repository owner/name.">>), JNull))
    ELSE LET remaining_requests == ReadIntegerHeader(response.remaining)
             reset_epoch        == ReadIntegerHeader(response.reset)
             error_message      == ErrorMessageOf(response)
         IN  IF response.status_code = 403 /\ IsRateLimited(remaining_requests, error_message)
             THEN Raised(ApiError("GitHubRateLimitExceededError",
                                  JStr(<<"Rate limit exceeded (403). Remaining=">>
                                       \o PyStr(remaining_requests) \o <<".">>),
                                  reset_epoch))
             ELSE IF response.status_code >= 400
             THEN Raised(ApiError("GitHubApiError", ApiMessageOf(response), JNull))
             ELSE Returned(response)

(***************************************************************************)
(* The classification on its own: one response of any kind.                *)
(***************************************************************************)
StatusCodes == {200, 304, 400, 401, 403, 404, 500}

RemainingHeaders == {NoHeader, <<>>, <<"0">>, <<"5">>, <<"none">>}

ResetHeaders == {NoHeader, IntStr(1700000000), <<"soon">>}

MessageBody(message) == Returned(JDict(<< <<"message", message>> >>))

Bodies ==
    { NotJson,
      Returned(JNull),
      Returned(JList(<<>>)),
      Returned(JList(<<JInt(1)>>)),
      Returned(JDict(EmptyDict)),
      MessageBody(JNull),
      MessageBody(JStr(<<"Forbidden">>)),
      MessageBody(JStr(<<"API ", "rate limit", " exceeded">>)),
      MessageBody(JStr(<<"API Rate Limit", " Exceeded">>)) }

RequestInit ==
    /\ \E status_code \in StatusCodes, remaining \in RemainingHeaders,
          reset \in ResetHeaders, body \in Bodies :
           http_response = Response(status_code, remaining, reset, <<>>, body)
    /\ request_outcome = Returned(JNull)
    /\ request_pc = "ready"

\* The classification at rest, in the specifications of the other components.
RequestIdle ==
    /\ http_response = Response(200, NoHeader, NoHeader, <<>>, NotJson)
    /\ request_outcome = Returned(JNull)
    /\ request_pc = "classified"

ClassifyResponse ==
    /\ request_pc = "ready"
    /\ request_outcome' = PerformRequest(http_response)
    /\ request_pc' = "classified"
    /\ UNCHANGED http_response

(***************************************************************************)
(* github_api_client.py: the pieces of list_open_pull_requests.            *)
(***************************************************************************)
\* A parser that lets an empty owner or name through.
HasEmptyPartNever(repository_owner, repository_name) == FALSE

\* line 146
HasEmptyPart(repository_owner, repository_name) ==
    repository_owner = <<>> \/ repository_name = <<>>

\* parse_repository_identifier (138-148)
parse_repository_identifier(repository_identifier) ==
    LET normalized_repository_identifier == Strip(repository_identifier)
    IN  IF Count(normalized_repository_identifier, "/") # 1 THEN Raised("ValueError")
        ELSE LET parts == SplitOnce(normalized_repository_identifier, "/")
                 repository_owner == Strip(parts[1])
                 repository_name  == Strip(parts[2])
             IN  IF HasEmptyPart(repository_owner, repository_name) THEN Raised("ValueError")
                 ELSE Returned(<<repository_owner, repository_name>>)

Max(a, b) == IF a > b THEN a ELSE b
Min(a, b) == IF a < b THEN a ELSE b

\* line 165
ClampItemsPerPage(items_per_page) == Max(1, Min(items_per_page, 100))

\* line 166: None is JNull
ClampMaximumPages(maximum_pages_to_fetch) ==
    IF maximum_pages_to_fetch = JNull THEN JNull
    ELSE JInt(Max(1, maximum_pages_to_fetch[2]))

\* A key that leaves the page size out.
CacheKeyWithoutPageSize(repository_owner, repository_name, items_per_page, maximum_pages, sort_field, sort_direction) ==
    <<"pull_requests", ":", "open", ":">> \o repository_owner \o <<"/">> \o repository_name
        \o <<":", "max_pages", "=">> \o PyStr(maximum_pages)
        \o <<":", "sort", "=">> \o sort_field
        \o <<":", "direction", "=">> \o sort_direction

\* lines 168-171, the f-string
CacheKeyOf(repository_owner, repository_name, items_per_page, maximum_pages, sort_field, sort_direction) ==
    <<"pull_requests", ":", "open", ":">> \o repository_owner \o <<"/">> \o repository_name
        \o <<":", "items_per_page", "=">> \o IntStr(items_per_page)
        \o <<":", "max_pages", "=">> \o PyStr(maximum_pages)
        \o <<":", "sort", "=">> \o sort_field
        \o <<":", "direction", "=">> \o sort_direction

\* line 184
RequestPathOf(repository_owner, repository_name) ==
    <<"/", "repos", "/">> \o repository_owner \o <<"/">> \o repository_name \o <<"/", "pulls">>

\* lines 185-191
InitialParameters(items_per_page, sort_field, sort_direction) ==
    << <<"state", <<"open">>>>, <<"per_page", IntStr(items_per_page)>>, <<"page", <<"1">>>>,
       <<"sort", sort_field>>, <<"direction", sort_direction>> >>

\* None, for next_query_parameters
NoParameters == <<"none">>

\* A fetch that never looks at the cache.
ConsultsCacheNever(bypass_cache) == FALSE

\* line 173
ConsultsCache(bypass_cache) == ~bypass_cache

\* line 175
IsStructurallyValidHit(cached_payload) ==
    IsDict(cached_payload) /\ IsList(JGet(cached_payload, "items", JNull))

\* A hit that reports no pages.
CachedPagesFetchedForgotten(cached_payload) == Returned(0)

\* line 177
CachedPagesFetched(cached_payload) ==
    LET recorded == JGet(cached_payload, "pages_fetched", JNull)
    IN  IF Truthy(recorded) THEN PyInt(recorded) ELSE Returned(0)

\* line 206
RECURSIVE DictItemsOnly(_)
DictItemsOnly(response_items) ==
    IF response_items = <<>> THEN <<>>
    ELSE (IF IsDict(Head(response_items)) THEN <<Head(response_items)>> ELSE <<>>)
         \o DictItemsOnly(Tail(response_items))

\* line 209
\* A loop that takes a missing page cap for a cap of one page.
ReachedMaximumPagesOrFirstPage(maximum_pages, pages_fetched) ==
    IF maximum_pages = JNull THEN pages_fetched >= 1 ELSE pages_fetched >= maximum_pages[2]

ReachedMaximumPages(maximum_pages, pages_fetched) ==
    maximum_pages # JNull /\ pages_fetched >= maximum_pages[2]

\* urllib.parse.urlparse, on a URL without fragment: the scheme is what
\* stands before a ":" in second place, the netloc what follows "//" up to
\* the next "/" or "?", the query what follows the first "?"
UrlParse(url) ==
    LET has_scheme == Len(url) >= 2 /\ url[2] = ":" /\ url[1] \notin {"/", "?", ":"}
        after_scheme == IF has_scheme THEN SubSeq(url, 3, Len(url)) ELSE url
        has_netloc == StartsWith(after_scheme, <<"/", "/">>)
        after_slashes == IF has_netloc THEN SubSeq(after_scheme, 3, Len(after_scheme))
                         ELSE after_scheme
        netloc_end == IF ~has_netloc THEN 0
                      ELSE IF \E i \in 1..Len(after_slashes) : after_slashes[i] \in {"/", "?"}
                      THEN (CHOOSE i \in 1..Len(after_slashes) :
                                /\ after_slashes[i] \in {"/", "?"}
                                /\ \A j \in 1..(i - 1) : after_slashes[j] \notin {"/", "?"}) - 1
                      ELSE Len(after_slashes)
        rest == SubSeq(after_slashes, netloc_end + 1, Len(after_slashes))
        question == Find(rest, "?")
    IN  [scheme |-> IF has_scheme THEN <<url[1]>> ELSE <<>>,
         netloc |-> SubSeq(after_slashes, 1, netloc_end),
         path   |-> IF question = 0 THEN rest ELSE SubSeq(rest, 1, question - 1),
         query  |-> IF question = 0 THEN <<>> ELSE SubSeq(rest, question + 1, Len(rest))]

\* lines 220-221: parse_qs, then the first value of every key; a pair without
\* "=" or with an empty value is dropped
RECURSIVE FirstValues(_, _)
FirstValues(parameters, pairs) ==
    IF pairs = <<>> THEN parameters
    ELSE LET pair == SplitOnce(Head(pairs), "=")
         IN  IF Len(pair) = 2 /\ pair[2] # <<>> /\ ~DictHas(parameters, pair[1])
             THEN FirstValues(DictPut(parameters, pair[1], pair[2]), Tail(pairs))
             ELSE FirstValues(parameters, Tail(pairs))

ParseQs(query) == FirstValues(EmptyDict, NonEmptyOnly(Split(query, "&")))

\* lines 217-224
NextRequestOf(next_page_url) ==
    LET parsed_next_url == UrlParse(next_page_url)
    IN  IF parsed_next_url.scheme # <<>> /\ parsed_next_url.netloc # <<>>
        THEN [path |-> parsed_next_url.path, query_parameters |-> ParseQs(parsed_next_url.query)]
        ELSE [path |-> next_page_url, query_parameters |-> NoParameters]

\* line 228, the value put into the cache
Aggregate(aggregated_items, pages_fetched) ==
    JDict(<< <<"items", JList(aggregated_items)>>, <<"pages_fetched", JInt(pages_fetched)>> >>)

\* OpenPullRequestsResult (32-36)
OpenPullRequestsResult(summaries, pages_fetched, response_was_from_cache) ==
    [pull_requests |-> summaries, pages_fetched |-> pages_fetched,
     response_was_from_cache |-> response_was_from_cache]

(***************************************************************************)
(* list_open_pull_requests (154-234) as the steps between its awaits.      *)
(*                                                                         *)
(* A call stands at "idle" (not made yet), "awaiting_response" (line 200), *)
(* "yielded" (line 226), "returned" or "raised".  Its record holds the     *)
(* arguments, the locals, and counts of what the call has done so far.     *)
(***************************************************************************)
Calls == {"c1", "c2"}

\* the store that is the client's cache_backend (line 90)
CacheBackend == "s1"

PythonError(class) == ApiError(class, JNull, JNull)

\* no entry of a call's making was found
NoEntry ==
    [found |-> FALSE, pull_requests |-> <<>>, pages_fetched |-> 0, bypass_cache |-> FALSE,
     expires_at |-> 0, written_for |-> <<>>, github_token |-> <<>>]

IdleCall ==
    [pc |-> "idle", github_token |-> <<>>,
     repository_identifier |-> <<>>, repository |-> <<>>, cache_key |-> <<>>,
     items_per_page |-> 0, maximum_pages |-> JNull, sort_field |-> <<>>,
     sort_direction |-> <<>>, bypass_cache |-> FALSE, entry_at_start |-> NoEntry,
     pages_fetched |-> 0, aggregated_items |-> <<>>,
     next_request_path |-> <<>>, next_query_parameters |-> NoParameters,
     requests_issued |-> 0, list_responses |-> 0, cache_operations |-> 0,
     open_scopes |-> 0, scopes_opened |-> 0, saw_non_list |-> FALSE,
     request_failed |-> FALSE,
     every_response_had_next |-> TRUE, every_next_was_usable |-> TRUE,
     result |-> Returned(OpenPullRequestsResult(<<>>, 0, FALSE))]

\* the call has left the function: its locals are gone
Ended(record, pc, result) ==
    [record EXCEPT !.pc = pc, !.result = result,
                   !.pages_fetched = 0, !.aggregated_items = <<>>,
                   !.next_request_path = <<>>, !.next_query_parameters = NoParameters]

\* a step's effect: the call's record, and what the cache call it made gave
Step(record, touched, store) == [record |-> record, touched |-> touched, store |-> store]

Untouched(st, file) ==
    [memory |-> st.memory, loaded |-> st.loaded, file |-> file, read |-> FALSE,
     persisted |-> FALSE, result |-> Returned(JNull)]

\* line 104, entering the async with: one more httpx.AsyncClient is open
EnterScope(open_scopes) == open_scopes + 1

\* An async with that closes the client only when its body returns.
ExitScopeOnReturnOnly(open_scopes, performed) ==
    IF IsRaised(performed) THEN open_scopes ELSE open_scopes - 1

\* line 104, leaving the async with, by return or by exception
ExitScope(open_scopes, performed) == open_scopes - 1

\* line 200: the request goes out, in a scope of its own (104-105)
IssueRequest(record) ==
    [record EXCEPT !.pc = "awaiting_response", !.requests_issued = @ + 1,
                   !.open_scopes = EnterScope(@), !.scopes_opened = @ + 1]

\* lines 229-234, and what escapes line 228 or 229: stored is what the cache
\* call gave, parsed what the parser gave
ReturnFetched(record, stored, parsed) ==
    IF IsRaised(stored.result)
    THEN Step(Ended(record, "raised", Raised(PythonError(stored.result[2]))), TRUE, stored)
    ELSE IF IsRaised(parsed)
    THEN Step(Ended(record, "raised", Raised(PythonError(parsed[2]))), TRUE, stored)
    ELSE Step(Ended(record, "returned",
                    Returned(OpenPullRequestsResult(parsed[2], record.pages_fetched, FALSE))),
              TRUE, stored)

\* lines 228-234
StoreAndReturn(record, st, file, current_time, default_ttl, io) ==
    ReturnFetched([record EXCEPT !.cache_operations = @ + 1],
                  SetCachedValue(st, file, current_time, default_ttl, record.cache_key,
                                 Aggregate(record.aggregated_items, record.pages_fetched),
                                 NoTtl, io),
                  parse_pull_requests_from_github_payload(record.aggregated_items))

\* lines 178-182, and what escapes line 176 or 177
ReturnCached(record, looked_up, parsed, pages_fetched) ==
    IF IsRaised(parsed)
    THEN Step(Ended(record, "raised", Raised(PythonError(parsed[2]))), TRUE, looked_up)
    ELSE IF IsRaised(pages_fetched)
    THEN Step(Ended(record, "raised", Raised(PythonError(pages_fetched[2]))), TRUE, looked_up)
    ELSE Step(Ended(record, "returned",
                    Returned(OpenPullRequestsResult(parsed[2], pages_fetched[2], TRUE))),
              TRUE, looked_up)

\* lines 175-182, on a structurally valid hit
ReturnFromCache(record, cached_payload, looked_up) ==
    ReturnCached(record, looked_up,
                 parse_pull_requests_from_github_payload(JGet(cached_payload, "items", JNull)[2]),
                 CachedPagesFetched(cached_payload))

\* lines 174-200, once the cache gave looked_up
AfterLookup(record, looked_up) ==
    IF IsRaised(looked_up.result)
    THEN Step(Ended(record, "raised", Raised(PythonError(looked_up.result[2]))),
              TRUE, looked_up)
    ELSE IF IsStructurallyValidHit(looked_up.result[2])
    THEN ReturnFromCache(record, looked_up.result[2], looked_up)
    ELSE Step(IssueRequest(record), TRUE, looked_up)

\* lines 173-200
ConsultCacheOrRequest(record, st, file, current_time, io) ==
    IF ~ConsultsCache(record.bypass_cache)
    THEN Step(IssueRequest(record), FALSE, Untouched(st, file))
    ELSE AfterLookup([record EXCEPT !.cache_operations = @ + 1],
                     GetCachedValue(st, file, current_time, record.cache_key, io))

\* lines 164-197: the locals of a call whose identifier parsed to repository
Entered(record, repository, items_per_page, maximum_pages, sort_field, sort_direction) ==
    [record EXCEPT !.repository = repository,
                   !.cache_key = CacheKeyOf(repository[1], repository[2], items_per_page,
                                            maximum_pages, sort_field, sort_direction),
                   !.items_per_page = items_per_page,
                   !.maximum_pages = maximum_pages,
                   !.sort_field = sort_field,
                   !.sort_direction = sort_direction,
                   !.next_request_path = RequestPathOf(repository[1], repository[2]),
                   !.next_query_parameters =
                       InitialParameters(items_per_page, sort_field, sort_direction)]

\* lines 164-200, once line 164 gave parsed_identifier
AfterParse(record, st, file, current_time, parsed_identifier, items_per_page, maximum_pages, sort_field, sort_direction, io) ==
    IF IsRaised(parsed_identifier)
    THEN Step(Ended(record, "raised", Raised(PythonError(parsed_identifier[2]))),
              FALSE, Untouched(st, file))
    ELSE ConsultCacheOrRequest(Entered(record, parsed_identifier[2], items_per_page,
                                       maximum_pages, sort_field, sort_direction),
                               st, file, current_time, io)

\* lines 164-200: from the call to its first request, to a cache hit, or to
\* the error that ends it
StartCall(st, file, current_time, repository_identifier, items_per_page, maximum_pages_to_fetch, bypass_cache, sort_field, sort_direction, io) ==
    AfterParse([IdleCall EXCEPT !.repository_identifier = repository_identifier,
                                !.bypass_cache = bypass_cache],
               st, file, current_time,
               parse_repository_identifier(repository_identifier),
               ClampItemsPerPage(items_per_page), ClampMaximumPages(maximum_pages_to_fetch),
               sort_field, sort_direction, io)

\* the server's Link header names a next page
CarriesNext(link) ==
    \E i \in 1..Len(link) :
        /\ link[i].bracketed
        /\ link[i].url # NoUrl
        /\ \E j \in 1..Len(link[i].params) :
              link[i].params[j].name = <<"rel">> /\ link[i].params[j].value = <<"next">>

\* ... at a target that gives a request path: a relative URL that is not
\* empty, or an absolute URL whose path is not empty
NextTargetIsUsable(link) ==
    \E i \in 1..Len(link) :
        /\ link[i].bracketed
        /\ link[i].url # NoUrl
        /\ link[i].url # <<>>
        /\ \E j \in 1..Len(link[i].params) :
              link[i].params[j].name = <<"rel">> /\ link[i].params[j].value = <<"next">>
        /\ LET target == UrlParse(link[i].url)
           IN  (target.scheme # <<>> /\ target.netloc # <<>>) => target.path # <<>>

\* what the call has seen of the server, after one more response
\* the response is a success whose body is JSON but not a list
IsNonListSuccess(response) ==
    /\ response.status_code < 400
    /\ ~IsRaised(response.body)
    /\ ~IsList(response.body[2])

Seen(record, response, is_list_page) ==
    [record EXCEPT
         !.saw_non_list = @ \/ IsNonListSuccess(response),
         !.request_failed = @ \/ response.status_code >= 400,
         !.list_responses = @ + (IF is_list_page THEN 1 ELSE 0),
         !.every_response_had_next = @ /\ is_list_page /\ CarriesNext(response.link),
         !.every_next_was_usable = @ /\ is_list_page /\ NextTargetIsUsable(response.link)]

\* lines 206-207
\* A loop that puts each page in front of the pages before it.
ExtendedInFront(aggregated_items, page_items) == page_items \o aggregated_items

\* line 206: aggregated_items.extend(...)
Extended(aggregated_items, page_items) == aggregated_items \o page_items

Paged(record, response_items) ==
    [record EXCEPT !.aggregated_items = Extended(@, DictItemsOnly(response_items)),
                   !.pages_fetched = @ + 1]

\* line 213; None is the empty text here, line 214 takes both the same way
NextPageUrl(response_links) ==
    IF DictHas(response_links, <<"next">>) THEN DictGet(response_links, <<"next">>) ELSE <<>>

\* lines 217-226
Follow(record, next_request) ==
    [record EXCEPT !.pc = "yielded",
                   !.next_request_path = next_request.path,
                   !.next_query_parameters = next_request.query_parameters]

\* lines 209-226, and 228-234 when the loop ends
AfterPage(record, st, file, current_time, default_ttl, next_page_url, io) ==
    IF ReachedMaximumPages(record.maximum_pages, record.pages_fetched)
    THEN StoreAndReturn(record, st, file, current_time, default_ttl, io)
    ELSE IF next_page_url = <<>>
    THEN StoreAndReturn(record, st, file, current_time, default_ttl, io)
    ELSE Step(Follow(record, NextRequestOf(next_page_url)), FALSE, Untouched(st, file))

\* lines 200-226, once line 200 gave performed, and 228-234 when the loop ends
AfterRequest(record, st, file, current_time, default_ttl, response, performed, io) ==
    IF IsRaised(performed)
    THEN Step(Ended(Seen(record, response, FALSE), "raised", performed),
              FALSE, Untouched(st, file))
    ELSE IF IsRaised(response.body)
    THEN Step(Ended(Seen(record, response, FALSE), "raised",
                    Raised(PythonError(response.body[2]))),
              FALSE, Untouched(st, file))
    ELSE IF ~IsList(response.body[2])
    THEN StoreAndReturn(Seen(record, response, FALSE), st, file, current_time, default_ttl, io)
    ELSE AfterPage(Paged(Seen(record, response, TRUE), response.body[2][2]),
                   st, file, current_time, default_ttl,
                   NextPageUrl(parse_github_link_header(RenderLinkHeader(response.link))), io)

\* lines 200-226 from the response on, and 228-234 when the loop ends
ReceiveResponse(record, st, file, current_time, default_ttl, response, io) ==
    AfterRequest([record EXCEPT !.open_scopes = ExitScope(@, PerformRequest(response))],
                 st, file, current_time, default_ttl, response, PerformRequest(response), io)

\* line 199 after the yield of line 226
ResumeLoop(record, st, file, current_time, default_ttl, io) ==
    IF record.next_request_path # <<>>
    THEN Step(IssueRequest(record), FALSE, Untouched(st, file))
    ELSE StoreAndReturn(record, st, file, current_time, default_ttl, io)

\* what a call asks for: owner and name, page size, page cap, sort field and
\* sort direction, as lines 164-166 leave them
ParametersOf(record) ==
    <<record.repository, record.items_per_page, record.maximum_pages,
      record.sort_field, record.sort_direction>>

\* what the call that wrote a cache entry returned, what it had asked for,
\* whether it bypassed the cache, when the entry ends, and the token of the
\* client that fetched it
Fetched(record, expires_at) ==
    [found |-> TRUE, pull_requests |-> record.result[2].pull_requests,
     pages_fetched |-> record.result[2].pages_fetched,
     bypass_cache |-> record.bypass_cache, expires_at |-> expires_at,
     written_for |-> ParametersOf(record), github_token |-> record.github_token]

\* the entry a call finds for its key when it starts: what its writer
\* returned, if the entry has neither expired nor been cleared
EntryAtStart(cache_key) ==
    IF DictHas(fetched, cache_key) /\ now < DictGet(fetched, cache_key).expires_at
    THEN DictGet(fetched, cache_key)
    ELSE NoEntry

\* A step of call c takes effect: on the call, and on the store if the step
\* made a cache call.  io is what the write did, "none" if nothing was written.
CallStep(c, out, io) ==
    /\ out.store.persisted <=> io # "none"
    /\ cache_file = OutOfReach /\ out.store.persisted => io = "denied"
    /\ call' = [call EXCEPT ![c] = out.record]
    /\ IF out.touched THEN StoreUpdate(CacheBackend, out.store)
       ELSE UNCHANGED <<storeVars, file_reads, load_snapshot>>
    /\ fetched' = IF out.record.pc = "returned" /\ ~out.record.result[2].response_was_from_cache
                  THEN DictPut(fetched, out.record.cache_key,
                               Fetched(out.record,
                                       now + default_time_to_live_seconds[CacheBackend]))
                  ELSE fetched
    /\ cache_call' = NoCall
    /\ UNCHANGED <<now, written, single_call, summary_request>>

\* the first step of a call, which also notes the entry the call found; the
\* call is made on the client, whose token (line 87) it keeps
FirstStep(c, out, io) ==
    CallStep(c, [out EXCEPT !.record.entry_at_start = EntryAtStart(out.record.cache_key),
                            !.record.github_token = call[c].github_token], io)

ListOpenPullRequests(c, repository_identifier, items_per_page, maximum_pages_to_fetch, bypass_cache, sort_field, sort_direction) ==
    /\ call[c].pc = "idle"
    /\ \E io \in WriteOutcomes \cup {"none"} :
           FirstStep(c, StartCall(InstanceOf(CacheBackend), cache_file, now,
                                  repository_identifier, items_per_page,
                                  maximum_pages_to_fetch, bypass_cache, sort_field,
                                  sort_direction, io),
                     io)

\* The server answers the request in flight; it has MaxRequests pages at most.
Receive(c, response) ==
    /\ call[c].pc = "awaiting_response"
    /\ call[c].requests_issued >= MaxRequests => ~CarriesNext(response.link)
    /\ \E io \in WriteOutcomes \cup {"none"} :
           CallStep(c, ReceiveResponse(call[c], InstanceOf(CacheBackend), cache_file, now,
                                       default_time_to_live_seconds[CacheBackend], response, io),
                    io)

\* line 105 raises: no response (connection refused, timeout)
RequestFails(c) ==
    /\ call[c].pc = "awaiting_response"
    /\ CallStep(c, Step(Ended([call[c] EXCEPT !.every_response_had_next = FALSE,
                                              !.request_failed = TRUE,
                                              !.every_next_was_usable = FALSE,
                                              !.open_scopes =
                                                  ExitScope(@, Raised(PythonError("TransportError")))],
                              "raised", Raised(PythonError("TransportError"))),
                        FALSE, Untouched(InstanceOf(CacheBackend), cache_file)),
                "none")

Resume(c) ==
    /\ call[c].pc = "yielded"
    /\ \E io \in WriteOutcomes \cup {"none"} :
           CallStep(c, ResumeLoop(call[c], InstanceOf(CacheBackend), cache_file, now,
                                  default_time_to_live_seconds[CacheBackend], io), io)

(***************************************************************************)
(* The calls of one request: list_user_repositories (236-287) and          *)
(* fetch_rate_limit_status (150-152), and the endpoint GET /api/user/repos *)
(* of api.py (146-173).                                                    *)
(***************************************************************************)
NoApiResponse == [status_code |-> 0, detail |-> <<>>]

SingleIdle ==
    [operation |-> "none", pc |-> "idle", via_api |-> FALSE, github_token |-> <<>>,
     cache_key |-> <<>>, requests_issued |-> 0, open_scopes |-> 0, scopes_opened |-> 0,
     cache_operations |-> 0, client_calls |-> 0, result |-> Returned(JNull),
     api_response |-> NoApiResponse, calls_begun |-> 0,
     query_token |-> <<>>, environment_token |-> <<>>, query_parameters |-> <<>>]

\* github_api_client.py line 87: the client keeps the token stripped
ClientToken(github_token) == Strip(github_token)

\* line 252, the f-string
UserReposCacheKey(connection_type, sort_field, maximum_items) ==
    <<"user", ":", "repos", ":", "type", "=">> \o connection_type
        \o <<":", "sort", "=">> \o sort_field
        \o <<":", "limit", "=">> \o IntStr(maximum_items)

\* lines 259-264: the query parameters of GET /user/repos
UserReposQueryParameters(connection_type, sort_field, sort_direction, maximum_items) ==
    << <<"type", connection_type>>, <<"sort", sort_field>>,
       <<"direction", sort_direction>>, <<"per_page", maximum_items>> >>

\* lines 273-279
SimplifiedRepo(repo) ==
    JDict(<< <<"full_name", JGet(repo, "full_name", JNull)>>,
             <<"private", JGet(repo, "private", JNull)>>,
             <<"updated_at", JGet(repo, "updated_at", JNull)>>,
             <<"description", JGet(repo, "description", JNull)>>,
             <<"html_url", JGet(repo, "html_url", JNull)>> >>)

\* lines 272-282
RECURSIVE SimplifiedRepos(_)
SimplifiedRepos(repos) ==
    IF repos = <<>> THEN <<>>
    ELSE (IF IsDict(Head(repos)) /\ Truthy(JGet(Head(repos), "full_name", JNull))
          THEN <<SimplifiedRepo(Head(repos))>> ELSE <<>>)
         \o SimplifiedRepos(Tail(repos))

\* the call has left the function
SingleEnded(record, pc, result) == [record EXCEPT !.pc = pc, !.result = result]

\* lines 254-263, once the cache gave looked_up
UserReposAfterLookup(record, looked_up) ==
    IF IsRaised(looked_up.result)
    THEN Step(SingleEnded(record, "raised", Raised(PythonError(looked_up.result[2]))),
              TRUE, looked_up)
    ELSE IF Truthy(looked_up.result[2])
    THEN Step(SingleEnded(record, "returned", Returned(looked_up.result[2])), TRUE, looked_up)
    ELSE Step(IssueRequest(record), TRUE, looked_up)

\* A listing that asks the server even without a token.
HasNoTokenNever(github_token) == FALSE

\* line 248: not self.github_token
HasNoToken(github_token) == ClientToken(github_token) = <<>>

\* lines 248-263: to the return of line 249, a cache hit, the request, or an error
StartUserRepositories(record, st, file, current_time, io) ==
    IF HasNoToken(record.github_token)
    THEN Step(SingleEnded(record, "returned", Returned(JList(<<>>))), FALSE, Untouched(st, file))
    ELSE UserReposAfterLookup([record EXCEPT !.cache_operations = @ + 1],
                              GetCachedValue(st, file, current_time, record.cache_key, io))

\* lines 286-287, and what escapes line 286
UserReposStored(record, simplified_repos, stored) ==
    IF IsRaised(stored.result)
    THEN Step(SingleEnded(record, "raised", Raised(PythonError(stored.result[2]))), TRUE, stored)
    ELSE Step(SingleEnded(record, "returned", Returned(simplified_repos)), TRUE, stored)

\* lines 256-287, once line 256 gave performed
UserReposAfterRequest(record, st, file, current_time, default_ttl, response, performed, io) ==
    IF IsRaised(performed)
    THEN Step(SingleEnded(record, "raised", performed), FALSE, Untouched(st, file))
    ELSE IF IsRaised(response.body)
    THEN Step(SingleEnded(record, "raised", Raised(PythonError(response.body[2]))),
              FALSE, Untouched(st, file))
    ELSE IF ~IsList(response.body[2])
    THEN Step(SingleEnded(record, "returned", Returned(JList(<<>>))), FALSE, Untouched(st, file))
    ELSE UserReposStored([record EXCEPT !.cache_operations = @ + 1],
                         JList(SimplifiedRepos(response.body[2][2])),
                         SetCachedValue(st, file, current_time, default_ttl, record.cache_key,
                                        JList(SimplifiedRepos(response.body[2][2])),
                                        JInt(60), io))

\* lines 151-152, once line 151 gave performed
RateLimitAfterRequest(record, st, file, response, performed) ==
    IF IsRaised(performed)
    THEN Step(SingleEnded(record, "raised", performed), FALSE, Untouched(st, file))
    ELSE IF IsRaised(response.body)
    THEN Step(SingleEnded(record, "raised", Raised(PythonError(response.body[2]))),
              FALSE, Untouched(st, file))
    ELSE Step(SingleEnded(record, "returned", Returned(response.body[2])), FALSE, Untouched(st, file))

\* api.py lines 53-55: full_name, private and html_url are required, each of its type
IsRepositorySummary(r) ==
    /\ IsDict(r)
    /\ JGet(r, "full_name", JNull)[1] = "str"
    /\ JGet(r, "private", JNull)[1] = "bool"
    /\ JGet(r, "html_url", JNull)[1] = "str"

\* api.py lines 160-173: what the endpoint answers once the client's call ended
ApiAnswer(result) ==
    IF IsRaised(result) THEN [status_code |-> 500, detail |-> <<"str(e)">>]
    ELSE IF IsList(result[2]) /\ \A i \in 1..Len(result[2][2]) : IsRepositorySummary(result[2][2][i])
    THEN [status_code |-> 200, detail |-> <<>>]
    ELSE [status_code |-> 500, detail |-> <<"str(e)">>]

\* the endpoint answers when the call it made has ended
Answered(record) ==
    IF record.via_api /\ record.pc \in {"returned", "raised"}
    THEN [record EXCEPT !.api_response = ApiAnswer(record.result)]
    ELSE record

\* api.py line 151: token or settings.github_personal_access_token, the
\* latter stripped by configuration.py
ApiToken(token, environment_token) ==
    IF token # <<>> THEN token ELSE Strip(environment_token)

\* api.py line 154, the detail of the 401
TokenRequiredDetail == <<"GitHub Token is required to list user repositories.">>

\* api.py lines 153-154: the endpoint answers without a client
ApiRejected ==
    [SingleIdle EXCEPT !.pc = "rejected", !.via_api = TRUE,
                       !.api_response = [status_code |-> 401, detail |-> TokenRequiredDetail]]

\* the record of a call of the client as it enters the method
SingleEntered(operation, via_api, github_token, cache_key) ==
    [SingleIdle EXCEPT !.operation = operation, !.via_api = via_api,
                       !.github_token = ClientToken(github_token),
                       !.cache_key = cache_key, !.client_calls = 1]

\* the store a new LocalTimeToLiveCache is (api.py line 156)
FreshInstance == [memory |-> <<>>, loaded |-> FALSE]

\* the store of the endpoint's requests, each of which makes its own
RequestBackend == "s2"

\* the response reaches the call that awaits it
SingleAfterRequest(record, st, file, current_time, default_ttl, response, performed, io) ==
    IF record.operation = "list_user_repositories"
    THEN UserReposAfterRequest(record, st, file, current_time, default_ttl, response, performed, io)
    ELSE RateLimitAfterRequest(record, st, file, response, performed)

\* A step of the call of one request takes effect, on the call and on its store.
SingleStep(store, out, io) ==
    /\ out.store.persisted <=> io # "none"
    /\ cache_file = OutOfReach /\ out.store.persisted => io = "denied"
    /\ single_call' = Answered(out.record)
    /\ IF out.touched THEN StoreUpdate(store, out.store)
       ELSE UNCHANGED <<storeVars, file_reads, load_snapshot>>
    /\ cache_call' = NoCall
    /\ UNCHANGED <<now, written, call, fetched, summary_request>>

\* how many calls of one request a behaviour makes
MaxSingleCalls == 2

\* no call of one request is in progress, and one more may begin
SingleCallEnded ==
    /\ single_call.pc \in {"idle", "returned", "raised", "rejected"}
    /\ single_call.calls_begun < MaxSingleCalls

\* one more call has begun
Begun(record) == [record EXCEPT !.calls_begun = single_call.calls_begun + 1]

\* the request the endpoint serves came with token, in a process whose
\* GITHUB_TOKEN is environment_token
Requested(record, token, environment_token) ==
    [record EXCEPT !.query_token = token, !.environment_token = environment_token]

\* the store the call in progress uses
SingleBackend == IF single_call.via_api THEN RequestBackend ELSE CacheBackend

\* the call came with these arguments, which line 256 will send
Asking(record, connection_type, sort_field, sort_direction, maximum_items) ==
    [record EXCEPT !.query_parameters =
                       UserReposQueryParameters(connection_type, sort_field, sort_direction,
                                                maximum_items)]

ListUserRepositories(github_token, connection_type, sort_field, sort_direction, maximum_items) ==
    /\ SingleCallEnded
    /\ \E io \in WriteOutcomes \cup {"none"} :
           SingleStep(CacheBackend,
                      StartUserRepositories(
                          Asking(Begun(SingleEntered("list_user_repositories", FALSE,
                                                     github_token,
                                                     UserReposCacheKey(connection_type,
                                                                       sort_field,
                                                                       maximum_items))),
                                 connection_type, sort_field, sort_direction, maximum_items),
                          InstanceOf(CacheBackend), cache_file, now, io),
                      io)

FetchRateLimitStatus(github_token) ==
    /\ SingleCallEnded
    /\ SingleStep(CacheBackend,
                  Step(IssueRequest(Begun(SingleEntered("fetch_rate_limit_status", FALSE,
                                                        github_token, <<>>))),
                       FALSE, Untouched(InstanceOf(CacheBackend), cache_file)),
                  "none")

\* GET /api/user/repos (api.py 146-173)
ApiListUserRepos(token, environment_token) ==
    /\ SingleCallEnded
    /\ IF ApiToken(token, environment_token) = <<>>
       THEN /\ single_call' = Requested(Begun(ApiRejected), token, environment_token)
            /\ cache_call' = NoCall
            /\ UNCHANGED <<now, written, call, fetched, summary_request, storeVars, file_reads,
                           load_snapshot>>
       ELSE \E io \in WriteOutcomes \cup {"none"} :
                SingleStep(RequestBackend,
                           StartUserRepositories(
                               Asking(Requested(Begun(SingleEntered(
                                                          "list_user_repositories", TRUE,
                                                          ApiToken(token, environment_token),
                                                          UserReposCacheKey(<<"owner">>,
                                                                            <<"updated">>,
                                                                            100))),
                                                token, environment_token),
                                      <<"owner">>, <<"updated">>, <<"desc">>, 100),
                               FreshInstance, cache_file, now, io),
                           io)

\* the server answers the request of the call in progress
SingleReceive(response) ==
    /\ single_call.pc = "awaiting_response"
    /\ \E io \in WriteOutcomes \cup {"none"} :
           SingleStep(SingleBackend,
                      SingleAfterRequest([single_call EXCEPT
                                              !.open_scopes = ExitScope(@, PerformRequest(response))],
                                         InstanceOf(SingleBackend), cache_file, now,
                                         default_time_to_live_seconds[SingleBackend],
                                         response, PerformRequest(response), io),
                      io)

\* line 105 raises in the call in progress: no response
SingleRequestFails ==
    /\ single_call.pc = "awaiting_response"
    /\ SingleStep(SingleBackend,
                  Step(SingleEnded([single_call EXCEPT
                                        !.open_scopes =
                                            ExitScope(@, Raised(PythonError("TransportError")))],
                                   "raised", Raised(PythonError("TransportError"))),
                       FALSE, Untouched(InstanceOf(SingleBackend), cache_file)),
                  "none")

\* GET /api/pr/{number}/summary before a request arrives
NoSummaryRequest ==
    [pc |-> "idle", number |-> 0, status_code |-> 0, detail |-> <<>>, body |-> <<>>]

\* the cache is cleared (the CLI's cache-clear, or any holder of the store)
ClearCache ==
    /\ CacheClear(CacheBackend)
    /\ fetched' = EmptyDict
    /\ UNCHANGED <<call, single_call, summary_request>>

(***************************************************************************)
(* The environment of the fetch: callers, a server, the clock.             *)
(***************************************************************************)
DefaultSortField == <<"updated">>
DefaultSortDirection == <<"desc">>

RepositoryIdentifiers == {<<"o", "/", "n">>, <<"o">>}

ItemsPerPagePool == {0, 1}

MaximumPagesPool == {JNull, JInt(0), JInt(2)}

\* every text of at most MaxIdLen atoms
IdentifierStrings == SeqsUpTo({"o", "/", Blank}, MaxIdLen)

PageUrl == <<"https", ":", "/", "/", "api.github.com", "/", "repos", "?", "page", "=", "2">>

LinkPool ==
    { <<>>,
      <<Segment(<<"/", "p2">>, TRUE, <<RelNext>>)>>,
      <<Segment(PageUrl, TRUE, <<RelNext>>), Segment(PageUrl, TRUE, <<RelLast>>)>>,
      <<Segment(<<"https", ":", "/", "/", "api.github.com">>, TRUE, <<RelNext>>)>> }

\* the items of the server's k-th page
PageItems(k) ==
    CASE k = 1 -> <<ItemGood1>>
      [] k = 2 -> <<ItemNotObject, ItemGood2>>
      [] OTHER -> <<ItemNonNumericNumber>>

\* what the server can answer to a call's k-th request
FetchResponses(k) ==
    { Response(200, NoHeader, NoHeader, link, Returned(JList(PageItems(k)))) : link \in LinkPool }
    \cup
    { Response(200, NoHeader, NoHeader, <<>>, Returned(JDict(EmptyDict))),
      Response(200, NoHeader, NoHeader, <<>>, NotJson),
      Response(401, NoHeader, NoHeader, <<>>, Returned(JDict(EmptyDict))),
      Response(403, <<"0">>, NoHeader, <<>>, Returned(JDict(EmptyDict))),
      Response(404, NoHeader, NoHeader, <<>>, Returned(JDict(EmptyDict))),
      Response(500, NoHeader, NoHeader, <<>>, NotJson) }

\* cache.json as an earlier run left it: an entry without pages_fetched for
\* one key, and an entry that is no aggregate for another
EarlierCacheFile ==
    FileJson(JDict(<<
        <<HashCacheKey(CacheKeyOf(<<"o">>, <<"n">>, 1, JInt(1),
                                  DefaultSortField, DefaultSortDirection)),
          JDict(<< <<ExpiresKey, JInt(MaxTime + 1)>>,
                   <<"value", JDict(<< <<"items", JList(<<ItemGood2>>)>> >>)>> >>)>>,
        <<HashCacheKey(CacheKeyOf(<<"o">>, <<"n">>, 1, JInt(2),
                                  DefaultSortField, DefaultSortDirection)),
          JDict(<< <<ExpiresKey, JInt(MaxTime + 1)>>,
                   <<"value", JStr(<<"text">>)>> >>)>> >>))

FetchInitialFiles == {NoFile, OutOfReach, EarlierCacheFile}

FetchInit ==
    /\ call = [c \in Calls |-> IdleCall]
    /\ fetched = EmptyDict
    /\ now = 0
    /\ cache_file \in FetchInitialFiles
    /\ in_memory_cache = [s \in Stores |-> <<>>]
    /\ has_loaded_cache_file = [s \in Stores |-> FALSE]
    /\ default_time_to_live_seconds = [s \in Stores |-> 2]
    /\ cache_call = NoCall
    /\ written = [s \in Stores |-> [k \in KeyPool |-> NeverSet]]
    /\ file_reads = [s \in Stores |-> 0]
    /\ load_snapshot = [s \in Stores |-> <<>>]
    /\ single_call = SingleIdle
    /\ summary_request = NoSummaryRequest

\* No call is made, in the specifications of the other components.
FetchIdle ==
    /\ call = [c \in Calls |-> IdleCall]
    /\ fetched = EmptyDict
    /\ single_call = SingleIdle
    /\ summary_request = NoSummaryRequest

(***************************************************************************)
(* The specifications.                                                     *)
(***************************************************************************)
NextLink == ParseLinkHeader /\ UNCHANGED <<parseVars, cacheVars, requestVars, fetchVars>>

InitLink == LinkInit /\ ParseIdle /\ CacheIdle /\ RequestIdle /\ FetchIdle

SpecLink == InitLink /\ [][NextLink]_vars

NextParse == ParsePullRequests /\ UNCHANGED <<linkVars, cacheVars, requestVars, fetchVars>>

InitParse == ParseInit /\ LinkIdle /\ CacheIdle /\ RequestIdle /\ FetchIdle

SpecParse == InitParse /\ [][NextParse]_vars

\* One instance and its callers, the clock, and another writer of the file.
NextCache ==
    \/ \E cache_key \in KeyPool : CacheGet("s1", cache_key) /\ UNCHANGED <<linkVars, parseVars, requestVars, fetchVars>>
    \/ \E cache_key \in KeyPool : CacheSet("s1", cache_key) /\ UNCHANGED <<linkVars, parseVars, requestVars, fetchVars>>
    \/ CacheClear("s1") /\ UNCHANGED <<linkVars, parseVars, requestVars, fetchVars>>
    \/ OtherWriter /\ UNCHANGED <<linkVars, parseVars, requestVars, fetchVars>>
    \/ Tick /\ UNCHANGED <<linkVars, parseVars, requestVars, fetchVars>>

InitCache == CacheInit /\ LinkIdle /\ ParseIdle /\ RequestIdle /\ FetchIdle

SpecCache == InitCache /\ [][NextCache]_vars

\* the key each of the two instances fetches and stores
KeySetBy(store) == IF store = "s1" THEN <<"k1">> ELSE <<"k2">>

\* Two instances that share cache.json, as two requests of the server adapter
\* or two runs of the CLI have them, starting without a file.  Each stores
\* its own key and looks up both.
NextShared ==
    \/ \E store \in Stores, cache_key \in KeyPool :
           CacheGet(store, cache_key) /\ UNCHANGED <<linkVars, parseVars, requestVars, fetchVars>>
    \/ \E store \in Stores :
           CacheSet(store, KeySetBy(store)) /\ UNCHANGED <<linkVars, parseVars, requestVars, fetchVars>>
    \/ Tick /\ UNCHANGED <<linkVars, parseVars, requestVars, fetchVars>>

InitShared ==
    /\ InitCache
    /\ cache_file = NoFile
    /\ default_time_to_live_seconds = [s \in Stores |-> 2]

SpecShared == InitShared /\ [][NextShared]_vars

(***************************************************************************)
(* C6.  What the header's segments, as the server wrote them, should give. *)
(***************************************************************************)
HasRelParam(seg) == \E i \in 1..Len(seg.params) : seg.params[i].name = <<"rel">>

HasUrlToken(seg) == seg.url # NoUrl /\ seg.bracketed

\* the value of the segment's first rel= parameter
SegmentRelation(seg) ==
    seg.params[CHOOSE i \in 1..Len(seg.params) :
                   /\ seg.params[i].name = <<"rel">>
                   /\ \A j \in 1..(i - 1) : seg.params[j].name # <<"rel">>].value

\* parsed maps exactly the segments of segs at the indexes in mapped, each
\* relation to the target of the last segment that carries it
MapsExactly(parsed, segs, mapped) ==
    /\ DictKeys(parsed) = {SegmentRelation(segs[i]) : i \in mapped}
    /\ \A i \in mapped :
          LET last == CHOOSE j \in mapped :
                          /\ SegmentRelation(segs[j]) = SegmentRelation(segs[i])
                          /\ \A k \in mapped :
                                SegmentRelation(segs[k]) = SegmentRelation(segs[i]) => k <= j
          IN  DictGet(parsed, SegmentRelation(segs[i])) = segs[last].url

\* C6 as claimed: every segment with a <url> token and a rel= parameter is
\* mapped, relation -> url, every other segment is ignored, and the later of
\* two segments with one relation name wins.
C6_EverySegmentWithUrlAndRelIsMapped ==
    link_pc = "parsed" =>
        MapsExactly(parsed_links, link_segments,
                    {i \in 1..Len(link_segments) :
                        HasUrlToken(link_segments[i]) /\ HasRelParam(link_segments[i])})

\* C6 as amended: the same, for the segments whose first rel= parameter has
\* a relation name that is not empty; a segment with an empty relation name
\* is ignored like a segment with no rel= parameter.
C6_SegmentsWithNamedRelationAreMapped ==
    link_pc = "parsed" =>
        MapsExactly(parsed_links, link_segments,
                    {i \in 1..Len(link_segments) :
                        /\ HasUrlToken(link_segments[i])
                        /\ HasRelParam(link_segments[i])
                        /\ SegmentRelation(link_segments[i]) # <<>>})

\* Two segments with the relation next and different targets were parsed,
\* and the mapping holds the second one's target.
C6_Witness ==
    /\ link_pc = "parsed"
    /\ Len(link_segments) = 2
    /\ \A i \in 1..2 : /\ HasUrlToken(link_segments[i])
                       /\ HasRelParam(link_segments[i])
                       /\ SegmentRelation(link_segments[i]) = <<"next">>
    /\ link_segments[1].url # link_segments[2].url
    /\ DictGet(parsed_links, <<"next">>) = link_segments[2].url

(***************************************************************************)
(* C7.  The batch parser against the items it was given.                   *)
(***************************************************************************)
TimestampCoerces(item, field) ==
    ~IsRaised(ParseGithubDatetime(Strip(PyStr(JGet(item, field, JStr(<<>>))))))

\* the item's number and its two timestamps coerce
NumberAndTimestampsCoerce(item) ==
    /\ IsDict(item)
    /\ DictHas(item[2], "number")
    /\ ~IsRaised(PyInt(DictGet(item[2], "number")))
    /\ TimestampCoerces(item, "created_at")
    /\ TimestampCoerces(item, "updated_at")

\* the item's labels can be iterated and its user is an object, where given
LabelsAndUserCoerce(item) ==
    /\ IsDict(item)
    /\ LET labels == JGet(item, "labels", JNull)
       IN  Truthy(labels) => labels[1] \in {"list", "str", "dict"}
    /\ LET user == JGet(item, "user", JNull)
       IN  Truthy(user) => IsDict(user)

KeptByEveryCoercion(item) == NumberAndTimestampsCoerce(item) /\ LabelsAndUserCoerce(item)

\* the numbers of the items of a batch that are kept, in the batch's order;
\* every_coercion tells which of the two readings of "kept" is meant
RECURSIVE NumbersOfKept(_, _)
NumbersOfKept(batch, every_coercion) ==
    IF batch = <<>> THEN <<>>
    ELSE LET kept == IF every_coercion THEN KeptByEveryCoercion(Head(batch))
                     ELSE NumberAndTimestampsCoerce(Head(batch))
         IN  (IF kept THEN <<PyInt(DictGet(Head(batch)[2], "number"))[2]>> ELSE <<>>)
             \o NumbersOfKept(Tail(batch), every_coercion)

NumbersOfSummaries(summaries) ==
    [i \in 1..Len(summaries) |-> summaries[i].pull_request_number]

\* C7 as claimed: the call never raises, and its output is exactly the
\* subsequence of the items whose number and created_at/updated_at coerce, in
\* their original order.
C7_OutputIsItemsWithNumberAndTimestamps ==
    parse_pc = "parsed" =>
        /\ ~IsRaised(pull_requests)
        /\ NumbersOfSummaries(pull_requests[2]) = NumbersOfKept(items, FALSE)

\* C7 as amended: the call never raises, and its output is exactly the
\* subsequence of the items for which every coercion succeeds: number,
\* created_at, updated_at, and also labels (falsy or iterable) and user
\* (falsy or an object), in their original order.
C7_OutputIsItemsThatCoerce ==
    parse_pc = "parsed" =>
        /\ ~IsRaised(pull_requests)
        /\ NumbersOfSummaries(pull_requests[2]) = NumbersOfKept(items, TRUE)

\* Three items, the second with a non-numeric number, gave the summaries of
\* the first and the third, in that order.
C7_Witness ==
    /\ parse_pc = "parsed"
    /\ items = <<ItemGood1, ItemNonNumericNumber, ItemGood2>>
    /\ ~IsRaised(pull_requests)
    /\ NumbersOfSummaries(pull_requests[2]) = <<1, 2>>

\* One call of one client, against every server, with the clock and clears of
\* the cache.
Next ==
    \/ \E repository_identifier \in RepositoryIdentifiers, items_per_page \in ItemsPerPagePool,
          maximum_pages_to_fetch \in MaximumPagesPool, bypass_cache \in BOOLEAN :
           /\ ListOpenPullRequests("c1", repository_identifier, items_per_page,
                                   maximum_pages_to_fetch, bypass_cache,
                                   DefaultSortField, DefaultSortDirection)
           /\ UNCHANGED <<linkVars, parseVars, requestVars>>
    \/ \E response \in FetchResponses(call["c1"].requests_issued) :
           Receive("c1", response) /\ UNCHANGED <<linkVars, parseVars, requestVars>>
    \/ RequestFails("c1") /\ UNCHANGED <<linkVars, parseVars, requestVars>>
    \/ Resume("c1") /\ UNCHANGED <<linkVars, parseVars, requestVars>>
    \/ ClearCache /\ UNCHANGED <<linkVars, parseVars, requestVars>>
    \/ Tick /\ UNCHANGED <<linkVars, parseVars, requestVars, fetchVars>>

Init == FetchInit /\ LinkIdle /\ ParseIdle /\ RequestIdle

Spec == Init /\ [][Next]_vars

\* where the call stands
position == <<call["c1"].pc, call["c1"].requests_issued>>

\* One call without a page cap, against every server.
NextAnswered ==
    \/ \E bypass_cache \in BOOLEAN :
           /\ ListOpenPullRequests("c1", <<"o", "/", "n">>, 1, JNull, bypass_cache,
                                   DefaultSortField, DefaultSortDirection)
           /\ UNCHANGED <<linkVars, parseVars, requestVars>>
    \/ \E response \in FetchResponses(call["c1"].requests_issued) :
           Receive("c1", response) /\ UNCHANGED <<linkVars, parseVars, requestVars>>
    \/ RequestFails("c1") /\ UNCHANGED <<linkVars, parseVars, requestVars>>
    \/ Resume("c1") /\ UNCHANGED <<linkVars, parseVars, requestVars>>

\* the event loop resumes a call that yielded at line 226 (asyncio.sleep(0)
\* returns at the next turn of the loop): the call is not at the yield for
\* ever.  This is weak fairness of Resume, which is enabled exactly when the
\* call is at the yield and is the only step that leaves it.
ResumedInTheEnd == []<>(call["c1"].pc # "yielded")

\* The call with what the transport and the event loop guarantee: a request
\* does not stay in flight for ever, for want of an answer it times out
\* (request_timeout, lines 89 and 104) and line 105 raises; and a call that
\* yielded is resumed.
SpecAnswered ==
    /\ Init /\ [][NextAnswered]_vars
    /\ WF_position(RequestFails("c1") /\ UNCHANGED <<linkVars, parseVars, requestVars>>)
    /\ ResumedInTheEnd

\* the caller awaits a call before it makes the next
EarlierCallsEnded(c) ==
    c = "c2" => call["c1"].pc \in {"returned", "raised"}

\* what a server of two pages can answer to a call's k-th request
TwoPageResponses(k) ==
    { Response(200, NoHeader, NoHeader, <<Segment(<<"/", "p2">>, TRUE, <<RelNext>>)>>,
               Returned(JList(PageItems(k)))),
      Response(200, NoHeader, NoHeader, <<>>, Returned(JList(PageItems(k)))),
      Response(200, NoHeader, NoHeader, <<>>, Returned(JDict(EmptyDict))),
      Response(401, NoHeader, NoHeader, <<>>, Returned(JDict(EmptyDict))) }

\* Two calls of one client, one after the other, for one repository, with
\* the clock and clears of the cache.
NextTwoCalls ==
    \/ \E c \in Calls, maximum_pages_to_fetch \in {JInt(0), JInt(2)}, bypass_cache \in BOOLEAN :
           /\ EarlierCallsEnded(c)
           /\ ListOpenPullRequests(c, <<"o", "/", "n">>, 1, maximum_pages_to_fetch,
                                   bypass_cache, DefaultSortField, DefaultSortDirection)
           /\ UNCHANGED <<linkVars, parseVars, requestVars>>
    \/ \E c \in Calls : \E response \in TwoPageResponses(call[c].requests_issued) :
           Receive(c, response) /\ UNCHANGED <<linkVars, parseVars, requestVars>>
    \/ \E c \in Calls : Resume(c) /\ UNCHANGED <<linkVars, parseVars, requestVars>>
    \/ ClearCache /\ UNCHANGED <<linkVars, parseVars, requestVars>>
    \/ Tick /\ UNCHANGED <<linkVars, parseVars, requestVars, fetchVars>>

SpecTwoCalls == Init /\ [][NextTwoCalls]_vars

\* what callers ask for: two repositories, two page sizes, two page caps,
\* and sort texts with and without the key's own separators in them
KeyRepositories == {<<"o", "/", "n">>, <<"o", "/", "m">>}
KeyItemsPerPage == {1, 2}
KeyMaximumPages == {JNull, JInt(1)}
KeySortFields == {DefaultSortField, <<"updated", ":", "direction", "=", "asc">>}
KeySortDirections == {DefaultSortDirection, <<"asc", ":", "direction", "=", "desc">>}

\* what a server of one page can answer
OnePageResponses ==
    { Response(200, NoHeader, NoHeader, <<>>, Returned(JList(PageItems(1)))),
      Response(500, NoHeader, NoHeader, <<>>, NotJson) }

\* Two calls of one client, one after the other, for whatever the callers
\* ask, each consulting the cache.
NextKeys ==
    \/ \E c \in Calls, repository_identifier \in KeyRepositories,
          items_per_page \in KeyItemsPerPage, maximum_pages_to_fetch \in KeyMaximumPages,
          sort_field \in KeySortFields, sort_direction \in KeySortDirections :
           /\ EarlierCallsEnded(c)
           /\ ListOpenPullRequests(c, repository_identifier, items_per_page,
                                   maximum_pages_to_fetch, FALSE, sort_field, sort_direction)
           /\ UNCHANGED <<linkVars, parseVars, requestVars>>
    \/ \E c \in Calls : \E response \in OnePageResponses :
           Receive(c, response) /\ UNCHANGED <<linkVars, parseVars, requestVars>>

SpecKeys == Init /\ [][NextKeys]_vars

\* what a server whose data changes can answer: a last page, of one pull
\* request or of another, or a page that names the next
RaceResponses ==
    { Response(200, NoHeader, NoHeader, <<>>, Returned(JList(<<ItemGood1>>))),
      Response(200, NoHeader, NoHeader, <<Segment(<<"/", "p2">>, TRUE, <<RelNext>>)>>,
               Returned(JList(<<ItemGood1>>))),
      Response(200, NoHeader, NoHeader, <<>>, Returned(JList(<<ItemGood2>>))),
      Response(401, NoHeader, NoHeader, <<>>, Returned(JDict(EmptyDict))) }

\* Two calls of one client for one key, neither awaited before the other
\* starts: they interleave at the awaits of lines 200 and 226.
NextRace ==
    \/ \E c \in Calls :
           /\ ListOpenPullRequests(c, <<"o", "/", "n">>, 1, JInt(2), FALSE,
                                   DefaultSortField, DefaultSortDirection)
           /\ UNCHANGED <<linkVars, parseVars, requestVars>>
    \/ \E c \in Calls : \E response \in RaceResponses :
           Receive(c, response) /\ UNCHANGED <<linkVars, parseVars, requestVars>>
    \/ \E c \in Calls : Resume(c) /\ UNCHANGED <<linkVars, parseVars, requestVars>>

SpecRace == Init /\ [][NextRace]_vars

\* the tokens a client or a request is given: none, white space, one
NoToken == <<>>
UserTokens == {NoToken, <<Blank>>, <<"t">>}

RepoGood ==
    JDict(<< Field("full_name", JStr(<<"o/n">>)), Field("private", JBool(FALSE)),
             Field("html_url", JStr(<<"https://github.com/o/n">>)),
             Field("stargazers_count", JInt(1)) >>)

RepoNoName == JDict(<< Field("private", JBool(TRUE)) >>)

\* what the server can answer to GET /user/repos and GET /rate_limit
UserResponses ==
    { Response(200, NoHeader, NoHeader, <<>>, Returned(JList(<<RepoGood, RepoNoName, JInt(1)>>))),
      Response(200, NoHeader, NoHeader, <<>>, Returned(JDict(EmptyDict))),
      Response(200, NoHeader, NoHeader, <<>>, NotJson),
      Response(403, <<"0">>, NoHeader, <<>>, Returned(JDict(EmptyDict))) }

\* the token of a request to the endpoint, and the GITHUB_TOKEN of its process
ApiTokens ==
    { <<NoToken, NoToken>>, <<NoToken, <<Blank>> >>, <<NoToken, <<"t">> >>,
      <<<<"t">>, NoToken>>, <<<<Blank>>, NoToken>> }

\* the caller awaits a top-level call before it makes the next
NoCallInProgress ==
    /\ single_call.pc \in {"idle", "returned", "raised", "rejected"}
    /\ call["c1"].pc \in {"idle", "returned", "raised"}

\* The three operations of the client and the endpoint of the user's
\* repositories, one top-level call at a time, against a server of two pages.
NextUser ==
    \/ \E bypass_cache \in BOOLEAN :
           /\ NoCallInProgress
           /\ ListOpenPullRequests("c1", <<"o", "/", "n">>, 1, JInt(2),
                                   bypass_cache, DefaultSortField, DefaultSortDirection)
           /\ UNCHANGED <<linkVars, parseVars, requestVars>>
    \/ \E response \in TwoPageResponses(call["c1"].requests_issued) :
           Receive("c1", response) /\ UNCHANGED <<linkVars, parseVars, requestVars>>
    \/ RequestFails("c1") /\ UNCHANGED <<linkVars, parseVars, requestVars>>
    \/ Resume("c1") /\ UNCHANGED <<linkVars, parseVars, requestVars>>
    \/ \E github_token \in UserTokens :
           /\ NoCallInProgress
           /\ ListUserRepositories(github_token, <<"owner">>, <<"updated">>, <<"desc">>, 10)
           /\ UNCHANGED <<linkVars, parseVars, requestVars>>
    \/ /\ NoCallInProgress
       /\ FetchRateLimitStatus(<<"t">>)
           /\ UNCHANGED <<linkVars, parseVars, requestVars>>
    \/ \E tokens \in ApiTokens :
           /\ NoCallInProgress
           /\ ApiListUserRepos(tokens[1], tokens[2])
           /\ UNCHANGED <<linkVars, parseVars, requestVars>>
    \/ \E response \in UserResponses :
           SingleReceive(response) /\ UNCHANGED <<linkVars, parseVars, requestVars>>
    \/ SingleRequestFails /\ UNCHANGED <<linkVars, parseVars, requestVars>>

SpecUser == Init /\ [][NextUser]_vars

(***************************************************************************)
(* The user's repositories, asked for in either direction.                 *)
(***************************************************************************)
RepoOlder ==
    JDict(<< Field("full_name", JStr(<<"o/a">>)), Field("private", JBool(FALSE)),
             Field("updated_at", JStr(<<"2024-01-01">>)) >>)

RepoNewer ==
    JDict(<< Field("full_name", JStr(<<"o/b">>)), Field("private", JBool(TRUE)),
             Field("updated_at", JStr(<<"2024-02-02">>)) >>)

SortDirections == {<<"desc">>, <<"asc">>}
PageSizes == {1, 2}

\* the first n of a list
FirstOf(list, n) == SubSeq(list, 1, IF n < Len(list) THEN n ELSE Len(list))

\* GET /user/repos of a user of two repositories: sorted by the time of the
\* last update, in the direction asked for, as many as per_page allows
UserReposOfServer(query_parameters) ==
    FirstOf(IF DictGet(query_parameters, "direction") = <<"asc">>
            THEN <<RepoOlder, RepoNewer>> ELSE <<RepoNewer, RepoOlder>>,
            DictGet(query_parameters, "per_page"))

UserReposResponse(query_parameters) ==
    Response(200, NoHeader, NoHeader, <<>>, Returned(JList(UserReposOfServer(query_parameters))))

\* Calls of list_user_repositories on one client, with either direction and
\* either size, against that server.
NextDirections ==
    \/ \E sort_direction \in SortDirections, maximum_items \in PageSizes :
           /\ ListUserRepositories(<<"t">>, <<"owner">>, <<"updated">>, sort_direction,
                                   maximum_items)
           /\ UNCHANGED <<linkVars, parseVars, requestVars>>
    \/ SingleReceive(UserReposResponse(single_call.query_parameters))
           /\ UNCHANGED <<linkVars, parseVars, requestVars>>
    \/ SingleRequestFails /\ UNCHANGED <<linkVars, parseVars, requestVars>>

SpecDirections == Init /\ [][NextDirections]_vars

(***************************************************************************)
(* Clients of different tokens over one cache file.                        *)
(***************************************************************************)
\* lines 93-101: the headers of every request of a client
BuildDefaultHeaders(github_token) ==
    << <<"Accept", <<"application/vnd.github+json">> >>,
       <<"X-GitHub-Api-Version", <<"2022-11-28">> >>,
       <<"User-Agent", <<"user_agent_value">> >> >>
    \o (IF github_token # <<>>
        THEN << <<"Authorization", <<"Bearer", Blank>> \o github_token>> >>
        ELSE <<>>)

\* api.py lines 92-93 (and 78-91 of the client): a request makes a cache of
\* its own over the cache file, and a client of its token over that cache
NewClient(c, github_token) ==
    /\ \A d \in Calls : call[d].pc \in {"idle", "returned", "raised"}
    /\ call[c].pc = "idle"
    /\ call' = [call EXCEPT ![c].github_token = ClientToken(github_token)]
    /\ in_memory_cache' = [in_memory_cache EXCEPT ![CacheBackend] = FreshInstance.memory]
    /\ has_loaded_cache_file' = [has_loaded_cache_file EXCEPT ![CacheBackend] = FreshInstance.loaded]
    /\ file_reads' = [file_reads EXCEPT ![CacheBackend] = 0]
    /\ load_snapshot' = [load_snapshot EXCEPT ![CacheBackend] = <<>>]
    /\ UNCHANGED <<now, cache_file, default_time_to_live_seconds, cache_call, written,
                   fetched, single_call, summary_request>>

\* the tokens of the clients: none, one that may read the repository, one
\* that may not
ReaderToken == <<"t">>
ClientTokens == {NoToken, ReaderToken, <<"u">>}

\* The server of a private repository: its open pull requests, in two
\* pages, to the bearer of the reader's token, 404 to everyone else.  k is
\* the number of the request.
PrivateRepositoryResponses(headers, k) ==
    IF DictHas(headers, "Authorization")
       /\ DictGet(headers, "Authorization") = <<"Bearer", Blank>> \o ReaderToken
    THEN { response \in TwoPageResponses(k) :
               response.status_code = 200 /\ IsList(response.body[2]) }
    ELSE { Response(404, NoHeader, NoHeader, <<>>, Returned(JDict(EmptyDict))) }

\* Two requests to GET /api/pull-requests, one after the other, each with a
\* token of its own, for one private repository.
NextTokens ==
    \/ \E c \in Calls, github_token \in ClientTokens :
           NewClient(c, github_token) /\ UNCHANGED <<linkVars, parseVars, requestVars>>
    \/ \E c \in Calls, bypass_cache \in BOOLEAN :
           /\ \A d \in Calls \ {c} : call[d].pc \in {"idle", "returned", "raised"}
           /\ ListOpenPullRequests(c, <<"o", "/", "n">>, 50, JInt(3), bypass_cache,
                                   DefaultSortField, DefaultSortDirection)
           /\ UNCHANGED <<linkVars, parseVars, requestVars>>
    \/ \E c \in Calls :
           \E response \in PrivateRepositoryResponses(BuildDefaultHeaders(call[c].github_token),
                                                       call[c].requests_issued) :
               Receive(c, response) /\ UNCHANGED <<linkVars, parseVars, requestVars>>
    \/ \E c \in Calls : Resume(c) /\ UNCHANGED <<linkVars, parseVars, requestVars>>
    \/ Tick /\ UNCHANGED <<linkVars, parseVars, requestVars, fetchVars>>

SpecTokens == Init /\ [][NextTokens]_vars

(***************************************************************************)
(* The endpoint GET /api/pr/{number}/summary of api.py (197-247).          *)
(***************************************************************************)
\* str(e) of an HTTPException: "<status_code>: <detail>"
StrOfHttpException(status_code, detail) == IntStr(status_code) \o <<": ">> \o detail

\* api.py line 233, the detail of the 404
NotFoundInOpenListDetail == <<"Pull Request not found in open list">>

\* api.py line 246: except Exception catches whatever the try block raises,
\* the HTTPException of lines 233 and 242 included
CaughtByOuterExcept(exception_class) == TRUE

\* what leaves the try block of lines 211-247 when its body raises an
\* HTTPException of status_code and detail
HttpExceptionInTry(request, status_code, detail) ==
    IF CaughtByOuterExcept("HTTPException")
    THEN [request EXCEPT !.pc = "answered", !.status_code = 500,
                         !.detail = StrOfHttpException(status_code, detail)]
    ELSE [request EXCEPT !.pc = "answered", !.status_code = status_code, !.detail = detail]

\* what the summarizer of lines 236-244 can do
GeminiOutcomes == {"summary", "ValueError", "Exception"}

\* lines 235-244, once the pull request was found
Summarized(request, gemini) ==
    CASE gemini = "summary" ->
             [request EXCEPT !.pc = "answered", !.status_code = 200, !.body = <<"summary">>]
      [] gemini = "ValueError" ->
             HttpExceptionInTry(request, 503, <<"AI Service Config Error: ", "str(e)">>)
      [] OTHER ->
             [request EXCEPT !.pc = "answered", !.status_code = 200,
                             !.body = <<"Could not generate summary: ", "str(e)">>]

\* line 230: is there a pull request of that number in the list
HasPullRequestNumbered(summaries, number) ==
    \E i \in 1..Len(summaries) : summaries[i].pull_request_number = number

\* lines 225-247, once list_open_pull_requests gave result
SummaryAfterListing(request, result, gemini) ==
    IF IsRaised(result)
    THEN [request EXCEPT !.pc = "answered", !.status_code = 500, !.detail = <<"str(e)">>]
    ELSE IF ~HasPullRequestNumbered(result[2].pull_requests, request.number)
    THEN HttpExceptionInTry(request, 404, NotFoundInOpenListDetail)
    ELSE Summarized(request, gemini)

\* lines 202-209: the request arrives; without a token it is answered 401
SummarizePullRequest(number, token, environment_token) ==
    /\ summary_request.pc = "idle"
    /\ call["c1"].pc = "idle"
    /\ summary_request' =
           IF ApiToken(token, environment_token) = <<>>
           THEN [NoSummaryRequest EXCEPT !.pc = "answered", !.number = number,
                                         !.status_code = 401,
                                         !.detail = <<"GitHub Token required">>]
           ELSE [NoSummaryRequest EXCEPT !.pc = "listing", !.number = number]
    /\ UNCHANGED <<cacheVars, call, fetched, single_call>>

\* lines 225-228: the endpoint's call of the client
SummaryLists(repository_identifier) ==
    /\ summary_request.pc = "listing"
    /\ ListOpenPullRequests("c1", repository_identifier, 100, JNull, FALSE,
                            DefaultSortField, DefaultSortDirection)

\* lines 230-247: the client's call has ended, the endpoint answers
SummaryAnswers ==
    /\ summary_request.pc = "listing"
    /\ call["c1"].pc \in {"returned", "raised"}
    /\ \E gemini \in GeminiOutcomes :
           summary_request' = SummaryAfterListing(summary_request, call["c1"].result, gemini)
    /\ UNCHANGED <<cacheVars, call, fetched, single_call>>

\* the numbers asked for: one that is open on the server, one that is not
SummaryNumbers == {1, 7}

\* One request for a summary, against a server of two pages.
NextSummary ==
    \/ \E number \in SummaryNumbers, tokens \in ApiTokens :
           /\ SummarizePullRequest(number, tokens[1], tokens[2])
           /\ UNCHANGED <<linkVars, parseVars, requestVars>>
    \/ \E repository_identifier \in RepositoryIdentifiers :
           SummaryLists(repository_identifier) /\ UNCHANGED <<linkVars, parseVars, requestVars>>
    \/ \E response \in TwoPageResponses(call["c1"].requests_issued) :
           Receive("c1", response) /\ UNCHANGED <<linkVars, parseVars, requestVars>>
    \/ Resume("c1") /\ UNCHANGED <<linkVars, parseVars, requestVars>>
    \/ SummaryAnswers /\ UNCHANGED <<linkVars, parseVars, requestVars>>

SpecSummary == Init /\ [][NextSummary]_vars

\* Calls with every repository identifier, against a server of one page.
NextRepo ==
    \/ \E repository_identifier \in IdentifierStrings, bypass_cache \in BOOLEAN :
           /\ ListOpenPullRequests("c1", repository_identifier, 1, JInt(1), bypass_cache,
                                   DefaultSortField, DefaultSortDirection)
           /\ UNCHANGED <<linkVars, parseVars, requestVars>>
    \/ \E response \in FetchResponses(1) :
           Receive("c1", response) /\ UNCHANGED <<linkVars, parseVars, requestVars>>

SpecRepo == Init /\ [][NextRepo]_vars

NextRequest == ClassifyResponse /\ UNCHANGED <<linkVars, parseVars, cacheVars, fetchVars>>

InitRequest == RequestInit /\ LinkIdle /\ ParseIdle /\ CacheIdle /\ FetchIdle

SpecRequest == InitRequest /\ [][NextRequest]_vars

(***************************************************************************)
(* C3, C9, C10.  The cache store against what its caller did.              *)
(***************************************************************************)
IsGetOf(store, cache_key) ==
    cache_call.op = "get" /\ cache_call.store = store /\ cache_call.key = cache_key

\* file holds exactly the entries of memory that have not expired at time t,
\* each with its expiry and its value
FileHoldsUnexpired(file, memory, t) ==
    /\ file[1] = "json"
    /\ IsDict(file[2])
    /\ DictKeys(file[2][2]) = {memory[i][1] : i \in {j \in 1..Len(memory) : memory[j][2][2] > t}}
    /\ \A i \in 1..Len(memory) :
          memory[i][2][2] > t =>
              LET stored_object == DictGet(file[2][2], memory[i][1])
              IN  /\ IsDict(stored_object)
                  /\ JGet(stored_object, ExpiresKey, JNull) = JInt(memory[i][2][2])
                  /\ JGet(stored_object, "value", JNull) = memory[i][2][1]

\* C3: a get of a key strictly before the expiry of what this instance set
\* returns the value set; a get once the lifetime is over returns None,
\* leaves the key out of the in-memory map and, when the write goes through,
\* leaves a file of exactly the unexpired entries; from then on the key is
\* not in the map, and a get of it returns None, until it is set again.
C3_RoundTripAndExpiry ==
    \A store \in Stores, cache_key \in KeyPool :
        LET mark == written[store][cache_key]
            hashed_key == HashCacheKey(cache_key)
        IN  /\ (IsGetOf(store, cache_key) /\ mark[1] = "set" /\ now < mark[3])
                   => cache_call.result = Returned(mark[2])
            /\ (IsGetOf(store, cache_key) /\ cache_call.evicting)
                   => /\ cache_call.result = Returned(JNull)
                      /\ ~DictHas(in_memory_cache[store], hashed_key)
                      /\ cache_call.io # "none"
                      /\ cache_call.io = "ok"
                             => /\ FileHoldsUnexpired(cache_file, in_memory_cache[store], now)
                                /\ ~DictHas(cache_file[2][2], hashed_key)
            /\ mark = SeenExpired
                   => /\ ~DictHas(in_memory_cache[store], hashed_key)
                      /\ IsGetOf(store, cache_key) => cache_call.result = Returned(JNull)

\* A get has just evicted an expired key and rewritten the file, which still
\* holds the other key.
C3_Witness ==
    /\ IsGetOf("s1", <<"k1">>)
    /\ cache_call.evicting
    /\ cache_call.io = "ok"
    /\ cache_file[1] = "json"
    /\ DictKeys(cache_file[2][2]) = {HashCacheKey(<<"k2">>)}
    /\ written["s1"][<<"k2">>][1] = "set"

\* C9: get, set and clear return normally whatever the file holds and
\* whatever the write or the unlink does, and a get of a key whose set could
\* not write the file still returns the value set, until the entry expires.
C9_CacheFailuresAreSwallowed ==
    /\ ~IsRaised(cache_call.result)
    /\ \A store \in Stores, cache_key \in KeyPool :
          LET mark == written[store][cache_key]
          IN  (IsGetOf(store, cache_key) /\ mark[1] = "set" /\ ~mark[4] /\ now < mark[3])
                  => cache_call.result = Returned(mark[2])

\* the entry is one this instance set itself, or one its load took
OwnOrLoaded(store, entry) ==
    \/ \E cache_key \in KeyPool :
          /\ entry[1] = HashCacheKey(cache_key)
          /\ written[store][cache_key][1] = "set"
          /\ entry[2] = CachedValue(written[store][cache_key][2], written[store][cache_key][3])
    \/ /\ DictHas(load_snapshot[store], entry[1])
       /\ DictGet(load_snapshot[store], entry[1]) = entry[2]

\* C10: an instance reads the file at most once, in the call that sets its
\* loaded flag, and its in-memory map only ever holds what that one load took
\* and what the instance set itself.
C10_FileReadAtMostOnce ==
    \A store \in Stores :
        /\ file_reads[store] <= 1
        /\ file_reads[store] = 1 => has_loaded_cache_file[store]
        /\ \A i \in 1..Len(in_memory_cache[store]) : OwnOrLoaded(store, in_memory_cache[store][i])

\* The instance has read the file once; another writer has since put an
\* unexpired entry for k1 into the file, and a get of k1 returned None.
C10_Witness ==
    /\ file_reads["s1"] = 1
    /\ IsGetOf("s1", <<"k1">>)
    /\ cache_call.result = Returned(JNull)
    /\ ~DictHas(load_snapshot["s1"], HashCacheKey(<<"k1">>))
    /\ cache_file \in OtherWriterFiles
    /\ cache_file # NoFile

(***************************************************************************)
(* C11.  What a load takes from a file with malformed entries.             *)
(***************************************************************************)
\* an entry of the file that is an object whose expiry is a number
IsWellFormedEntry(stored_object) ==
    IsDict(stored_object) /\ JGet(stored_object, ExpiresKey, JInt(0))[1] = "int"

\* the well-formed entries of the file, as the load should hold them
WellFormedEntries(file) ==
    IF file[1] = "json" /\ IsDict(file[2])
    THEN {<<file[2][2][i][1],
            CachedValue(JGet(file[2][2][i][2], "value", JNull),
                        JGet(file[2][2][i][2], ExpiresKey, JInt(0))[2])>> :
              i \in {j \in 1..Len(file[2][2]) : IsWellFormedEntry(file[2][2][j][2])}}
    ELSE {}

\* the step is a call in which instance store read the file
ReadsFile(store) == file_reads'[store] = file_reads[store] + 1

\* C11: a load takes every well-formed entry of the file it reads, wherever
\* the entry stands relative to the malformed ones.
C11_EveryWellFormedEntryIsLoaded ==
    [][\A store \in Stores :
          ReadsFile(store) =>
              \A entry \in WellFormedEntries(cache_file) :
                  /\ DictHas(load_snapshot'[store], entry[1])
                  /\ DictGet(load_snapshot'[store], entry[1]) = entry[2]]_vars

\* What holds: a load takes every well-formed entry that stands before the
\* first entry whose expiry is not a number, and never raises.
C11_LoadsUpToTheFirstBadExpiry ==
    [][\A store \in Stores :
          ReadsFile(store) =>
              /\ ~IsRaised(cache_call'.result)
              /\ (cache_file[1] = "json" /\ IsDict(cache_file[2])) =>
                    \A i \in 1..Len(cache_file[2][2]) :
                        (/\ IsWellFormedEntry(cache_file[2][2][i][2])
                         /\ \A j \in 1..i : \/ ~IsDict(cache_file[2][2][j][2])
                                              \/ IsWellFormedEntry(cache_file[2][2][j][2]))
                            => DictHas(load_snapshot'[store], cache_file[2][2][i][1])]_vars

\* The instance has read a file whose first entry has the expiry "soon" and
\* whose second entry, for k1, is well formed; the file is as it was, and
\* the load took nothing.
C11_Witness ==
    /\ file_reads["s1"] = 1
    /\ IsGetOf("s1", <<"k2">>)
    /\ cache_call.io = "none"
    /\ cache_file = FileJson(JDict(<< <<HashCacheKey(<<"k2">>), BadExpiryEntry>>,
                                      <<HashCacheKey(<<"k1">>), OldEntry>> >>))
    /\ load_snapshot["s1"] = <<>>
    /\ in_memory_cache["s1"] = <<>>

(***************************************************************************)
(* C12.  What clear leaves behind.                                         *)
(***************************************************************************)
IsClearOf(store) == cache_call.op = "clear" /\ cache_call.store = store

\* C12: when clear returns, it returns normally, the in-memory map of the
\* instance is empty, and cache.json does not exist unless the deletion
\* failed: unlink was refused, or the file could not even be looked up.
C12_ClearEmptiesMemoryAndDeletesTheFile ==
    \A store \in Stores :
        IsClearOf(store) =>
            /\ cache_call.result = Returned(JNull)
            /\ in_memory_cache[store] = <<>>
            /\ cache_call.io = "ok" => cache_file = NoFile
            /\ cache_file # NoFile => (cache_call.io = "denied" \/ cache_file = OutOfReach)

\* A clear after a set of this instance had written the file: unlink was
\* refused, clear returned, the map is empty and the file is still there.
C12_Witness ==
    /\ IsClearOf("s1")
    /\ cache_call.io = "denied"
    /\ cache_call.result = Returned(JNull)
    /\ in_memory_cache["s1"] = <<>>
    /\ cache_file[1] = "json"
    /\ IsDict(cache_file[2])
    /\ DictHas(cache_file[2][2], HashCacheKey(<<"k1">>))

(***************************************************************************)
(* C5.  The classification against the table, read off the response.       *)
(***************************************************************************)
IsIntegerText(header_value) ==
    /\ header_value # NoHeader
    /\ header_value # <<>>
    /\ \A i \in 1..Len(header_value) : IsDigit(header_value[i])

\* the body is a JSON object whose message is a text with one of these atoms
MessageHasAtomIn(response, atoms) ==
    /\ ~IsRaised(response.body)
    /\ IsDict(response.body[2])
    /\ DictHas(response.body[2][2], "message")
    /\ LET message == DictGet(response.body[2][2], "message")
       IN  message[1] = "str" /\ \E i \in 1..Len(message[2]) : message[2][i] \in atoms

RaisedClass(outcome, class) == IsRaised(outcome) /\ outcome[2].class = class

\* The table, for a given reading of "a message containing rate limit" and
\* of the reset carried when the header is no integer.
ClassifiedByTheTable(rate_limit_atoms, none_unless_integer) ==
    request_pc = "classified" =>
        LET response == http_response
            outcome  == request_outcome
        IN  CASE response.status_code = 401 -> RaisedClass(outcome, "GitHubAuthenticationError")
              [] response.status_code = 404 -> RaisedClass(outcome, "GitHubRepositoryNotFoundError")
              [] /\ response.status_code = 403
                 /\ \/ response.remaining = <<"0">>
                    \/ MessageHasAtomIn(response, rate_limit_atoms)
                   -> /\ RaisedClass(outcome, "GitHubRateLimitExceededError")
                      /\ IsIntegerText(response.reset)
                             => outcome[2].reset_unix_epoch_seconds = JInt(DigitsValue(response.reset))
                      /\ response.reset = NoHeader
                             => outcome[2].reset_unix_epoch_seconds = JNull
                      /\ (none_unless_integer /\ ~IsIntegerText(response.reset))
                             => outcome[2].reset_unix_epoch_seconds = JNull
              [] response.status_code >= 400 -> RaisedClass(outcome, "GitHubApiError")
              [] OTHER -> outcome = Returned(response)

\* C5 as stated: 401 is an authentication error, 404 a not-found error, a 403
\* whose X-RateLimit-Remaining is 0 or whose message contains the text
\* "rate limit" a rate-limit error with the reset epoch of the header (none
\* without the header), any other status >= 400 the generic error, and a
\* status < 400 is returned.
C5_ClassifiedByTheTableAsStated ==
    ClassifiedByTheTable({"rate limit"}, FALSE)

\* C5, amended: the same table, where the message contains "rate limit" in
\* any letter case, and the error carries the reset header's value when it is
\* an integer and none otherwise.
C5_ClassifiedByTheTableAnyLetterCase ==
    ClassifiedByTheTable({"rate limit", "API Rate Limit"}, TRUE)

\* A 403 with requests remaining whose message says "API Rate Limit Exceeded"
\* was classified as a rate-limit error carrying the reset epoch.
C5_Witness ==
    /\ request_pc = "classified"
    /\ http_response.status_code = 403
    /\ http_response.remaining = <<"5">>
    /\ http_response.reset = IntStr(1700000000)
    /\ http_response.body = MessageBody(JStr(<<"API Rate Limit", " Exceeded">>))
    /\ RaisedClass(request_outcome, "GitHubRateLimitExceededError")
    /\ request_outcome[2].reset_unix_epoch_seconds = JInt(1700000000)

(***************************************************************************)
(* C1.  One call against its page cap.                                     *)
(***************************************************************************)
HasMaximumPages(c) == call[c].pc # "idle" /\ call[c].maximum_pages # JNull

FetchedFromServer(c) ==
    call[c].pc = "returned" /\ ~call[c].result[2].response_was_from_cache

\* C1, the bound: a call with page cap M never issues more than M requests,
\* and what it returns has pages_fetched <= M.
C1_RequestsBoundedByMaximumPages ==
    \A c \in Calls :
        HasMaximumPages(c) =>
            /\ call[c].requests_issued <= call[c].maximum_pages[2]
            /\ call[c].pages_fetched <= call[c].maximum_pages[2]
            /\ call[c].pc = "returned"
                   => call[c].result[2].pages_fetched <= call[c].maximum_pages[2]

\* C1 as stated: the bound, and a call with page cap M all of whose responses
\* were lists carrying a rel="next" link has stopped after M of them and
\* returns pages_fetched = M.
C1_StopsAtExactlyMaximumPages ==
    /\ C1_RequestsBoundedByMaximumPages
    /\ \A c \in Calls :
          (HasMaximumPages(c) /\ call[c].every_response_had_next) =>
              /\ call[c].list_responses = call[c].maximum_pages[2]
                     => call[c].pc \in {"returned", "raised"}
              /\ FetchedFromServer(c)
                     => call[c].result[2].pages_fetched = call[c].maximum_pages[2]

\* What holds of the second half: the same, for a call all of whose responses
\* named a next page the loop could follow (a path that is not empty).
C1_StopsAtMaximumPagesWhenNextIsUsable ==
    \A c \in Calls :
        (HasMaximumPages(c) /\ call[c].every_next_was_usable) =>
            /\ call[c].list_responses = call[c].maximum_pages[2]
                   => call[c].pc \in {"returned", "raised"}
            /\ FetchedFromServer(c)
                   => call[c].result[2].pages_fetched = call[c].maximum_pages[2]

\* A call with page cap 2 returned after one request whose response was a
\* list carrying a rel="next" link, with pages_fetched = 1.
C1_Witness ==
    /\ FetchedFromServer("c1")
    /\ call["c1"].maximum_pages = JInt(2)
    /\ call["c1"].every_response_had_next
    /\ call["c1"].requests_issued = 1
    /\ call["c1"].result[2].pages_fetched = 1

(***************************************************************************)
(* C4.  The repository identifier, and what an invalid one stops.          *)
(***************************************************************************)
\* after trimming, exactly one slash, and text on both sides of it after
\* trimming
IsValidIdentifier(repository_identifier) ==
    LET trimmed == Strip(repository_identifier)
    IN  /\ Cardinality({i \in 1..Len(trimmed) : trimmed[i] = "/"}) = 1
        /\ \E i \in 1..Len(trimmed) :
              /\ trimmed[i] = "/"
              /\ Strip(SubSeq(trimmed, 1, i - 1)) # <<>>
              /\ Strip(SubSeq(trimmed, i + 1, Len(trimmed))) # <<>>

\* C4: for a valid identifier parse_repository_identifier returns an owner
\* and a name, neither empty, and the call does not fail validation; for any
\* other identifier the call has raised the validation error without a
\* request, without a cache call, and with the store as it was made.
C4_InvalidIdentifierStopsBeforeRequestAndCache ==
    \A c \in Calls :
        call[c].pc # "idle" =>
            LET repository_identifier == call[c].repository_identifier
                parsed == parse_repository_identifier(repository_identifier)
            IN  IF IsValidIdentifier(repository_identifier)
                THEN /\ ~IsRaised(parsed)
                     /\ parsed[2][1] # <<>> /\ parsed[2][2] # <<>>
                     /\ call[c].repository = parsed[2]
                     /\ ~(call[c].pc = "raised" /\ call[c].result[2].class = "ValueError")
                ELSE /\ IsRaised(parsed)
                     /\ call[c].pc = "raised"
                     /\ call[c].result[2].class = "ValueError"
                     /\ call[c].requests_issued = 0
                     /\ call[c].cache_operations = 0
                     /\ ~has_loaded_cache_file[CacheBackend]
                     /\ in_memory_cache[CacheBackend] = EmptyDict
                     /\ file_reads[CacheBackend] = 0

\* A call whose identifier has nothing after its slash once trimmed has
\* raised the validation error.
C4_Witness ==
    /\ call["c1"].repository_identifier = <<"o", "/", Blank>>
    /\ call["c1"].pc = "raised"
    /\ call["c1"].result[2].class = "ValueError"
    /\ call["c1"].requests_issued = 0

(***************************************************************************)
(* C2, C8.  A call against the entry that an earlier call left.            *)
(***************************************************************************)
FoundEntryAtStart(c) == call[c].pc # "idle" /\ call[c].entry_at_start.found

\* C2: a call with bypass_cache = false that starts while the entry written
\* for its key by a returned call with bypass_cache = true has neither
\* expired nor been cleared returns from the cache, with the pull requests
\* that call returned, in their order, and issues no request.
C2_SecondCallIsServedFromCache ==
    \A c \in Calls :
        (FoundEntryAtStart(c) /\ ~call[c].bypass_cache /\ call[c].entry_at_start.bypass_cache) =>
            /\ call[c].pc = "returned"
            /\ call[c].result[2].response_was_from_cache
            /\ call[c].result[2].pull_requests = call[c].entry_at_start.pull_requests
            /\ call[c].requests_issued = 0

\* The first call bypassed the cache and returned two pages; the second,
\* started later but before the entry expired, was served them from the cache.
C2_Witness ==
    /\ call["c1"].bypass_cache
    /\ FetchedFromServer("c1")
    /\ Len(call["c1"].result[2].pull_requests) = 2
    /\ ~call["c2"].bypass_cache
    /\ call["c2"].pc = "returned"
    /\ call["c2"].result[2].response_was_from_cache
    /\ call["c2"].result[2].pull_requests = call["c1"].result[2].pull_requests
    /\ call["c2"].requests_issued = 0
    /\ now > 0

\* C8: what a call returns from the server has pages_fetched equal to the
\* number of list-bodied responses the call received; what it returns from
\* the cache has the pages_fetched that the writer of the entry returned.
C8_PagesFetchedIsPagesFetched ==
    \A c \in Calls :
        call[c].pc = "returned" =>
            IF call[c].result[2].response_was_from_cache
            THEN FoundEntryAtStart(c)
                     => call[c].result[2].pages_fetched = call[c].entry_at_start.pages_fetched
            ELSE call[c].result[2].pages_fetched = call[c].list_responses

\* A call was served from the cache an entry that its writer fetched in two
\* pages, and reports two pages.
C8_Witness ==
    /\ call["c2"].pc = "returned"
    /\ call["c2"].result[2].response_was_from_cache
    /\ FoundEntryAtStart("c2")
    /\ call["c2"].entry_at_start.pages_fetched = 2
    /\ call["c2"].result[2].pages_fetched = 2
    /\ call["c1"].list_responses = 2

(***************************************************************************)
(* C13.  Calls that ask for different things, and their cache keys.        *)
(***************************************************************************)
HasKey(c) == call[c].cache_key # <<>>

ServedFromCache(c) ==
    /\ call[c].pc = "returned"
    /\ call[c].result[2].response_was_from_cache
    /\ call[c].entry_at_start.found

\* neither sort text of what was asked has a ":" in it
SortTextsHaveNoColon(parameters) ==
    ~Contains(parameters[4], ":") /\ ~Contains(parameters[5], ":")

\* C13 as stated: two calls that ask for different things have different
\* cache keys, and a call is served from the cache only what a call that
\* asked for the same thing wrote.
C13_DifferentParametersGiveDifferentKeys ==
    /\ \A c, d \in Calls :
          (HasKey(c) /\ HasKey(d) /\ ParametersOf(call[c]) # ParametersOf(call[d]))
              => call[c].cache_key # call[d].cache_key
    /\ \A c \in Calls :
          ServedFromCache(c) => call[c].entry_at_start.written_for = ParametersOf(call[c])

\* C13, for sort texts without ":": two calls that ask for different things
\* (owner and name as parsed, page size and page cap as clamped) have
\* different cache keys, and a call is served from the cache only what a
\* call that asked for the same thing wrote.
C13_DifferentParametersGiveDifferentKeysWithoutColons ==
    /\ \A c, d \in Calls :
          (/\ HasKey(c) /\ HasKey(d)
           /\ ParametersOf(call[c]) # ParametersOf(call[d])
           /\ SortTextsHaveNoColon(ParametersOf(call[c]))
           /\ SortTextsHaveNoColon(ParametersOf(call[d])))
              => call[c].cache_key # call[d].cache_key
    /\ \A c \in Calls :
          (/\ ServedFromCache(c)
           /\ SortTextsHaveNoColon(ParametersOf(call[c]))
           /\ SortTextsHaveNoColon(call[c].entry_at_start.written_for))
              => call[c].entry_at_start.written_for = ParametersOf(call[c])

\* The first call fetched and cached page size 1 of o/n; the second asked
\* for page size 2 of it while that entry was there, found nothing under its
\* own key and fetched from the server.
C13_Witness ==
    /\ FetchedFromServer("c1")
    /\ FetchedFromServer("c2")
    /\ ~call["c2"].bypass_cache
    /\ ~call["c2"].entry_at_start.found
    /\ DictHas(fetched, call["c1"].cache_key)
    /\ call["c1"].repository = call["c2"].repository
    /\ call["c1"].items_per_page = 1
    /\ call["c2"].items_per_page = 2
    /\ call["c1"].maximum_pages = call["c2"].maximum_pages
    /\ call["c1"].sort_field = DefaultSortField
    /\ call["c2"].sort_field = DefaultSortField
    /\ call["c1"].sort_direction = DefaultSortDirection
    /\ call["c2"].sort_direction = DefaultSortDirection

(***************************************************************************)
(* C14.  Two instances on one file.                                        *)
(***************************************************************************)
\* the last call was a set or an evicting get of store that wrote the file
PersistedLast(store) ==
    /\ cache_call.store = store
    /\ cache_call.op \in {"get", "set"}
    /\ cache_call.io = "ok"

\* store set cache_key, the write went through and the entry has not expired
HasWrittenUnexpired(store, cache_key) ==
    /\ written[store][cache_key][1] = "set"
    /\ written[store][cache_key][4]
    /\ now < written[store][cache_key][3]

\* C14: when an instance has just written the file, the file holds exactly
\* that instance's unexpired in-memory entries, whatever the other instance
\* had written before; and a get of a key returns None or the value that is
\* set for that key, never another one.
C14_LastWriterWins ==
    /\ \A store \in Stores :
          PersistedLast(store) => FileHoldsUnexpired(cache_file, in_memory_cache[store], now)
    /\ \A store \in Stores, cache_key \in KeyPool :
          IsGetOf(store, cache_key) =>
              cache_call.result \in {Returned(JNull), Returned(ValueFor(cache_key))}

\* s1 set k1 and wrote the file; s2, which had loaded before that, has just
\* set k2 and written the file: the unexpired k1 entry is no longer in it.
C14_Witness ==
    /\ HasWrittenUnexpired("s1", <<"k1">>)
    /\ cache_call.op = "set"
    /\ PersistedLast("s2")
    /\ cache_call.key = <<"k2">>
    /\ cache_file[1] = "json"
    /\ DictKeys(cache_file[2][2]) = {HashCacheKey(<<"k2">>)}
    /\ DictHas(in_memory_cache["s1"], HashCacheKey(<<"k1">>))

(***************************************************************************)
(* C15.  The scope of the HTTP connection.                                 *)
(***************************************************************************)
CallHasEnded(record) == record.pc \in {"returned", "raised"}

\* every scope a call opened is closed once the call has ended or waits
\* between two pages, one scope at most is open, and each request has its own
ScopesAreReleased(record) ==
    /\ record.open_scopes \in {0, 1}
    /\ record.open_scopes = 1 <=> record.pc = "awaiting_response"
    /\ record.scopes_opened = record.requests_issued

\* C15 as stated: whenever list_open_pull_requests, list_user_repositories or
\* fetch_rate_limit_status has returned or raised, no connection scope the
\* call opened is still open, and the call acquired its scope once, per
\* top-level call.
C15_OneScopePerCallReleasedOnEveryExit ==
    /\ ScopesAreReleased(call["c1"]) /\ ScopesAreReleased(single_call)
    /\ CallHasEnded(call["c1"]) => call["c1"].scopes_opened <= 1
    /\ CallHasEnded(single_call) => single_call.scopes_opened <= 1

\* C15 amended: whenever one of the three operations has returned or raised,
\* no connection scope the call opened is still open; a scope is acquired
\* per HTTP request (one for each page, none on a cache hit), and at most one
\* is open at a time.
C15_ScopePerRequestReleasedOnEveryExit ==
    /\ ScopesAreReleased(call["c1"]) /\ ScopesAreReleased(single_call)
    /\ CallHasEnded(single_call) => single_call.scopes_opened <= 1

\* a listing of pull requests raised on its second page, and a call of one
\* request raised on a classified error: every scope is closed
C15_Witness ==
    /\ call["c1"].pc = "raised" /\ call["c1"].scopes_opened = 2
    /\ call["c1"].result[2].class = "GitHubAuthenticationError"
    /\ call["c1"].open_scopes = 0
    /\ single_call.pc = "raised" /\ single_call.scopes_opened = 1
    /\ single_call.result[2].class = "GitHubRateLimitExceededError"
    /\ single_call.open_scopes = 0

(***************************************************************************)
(* C16.  Pagination is sequential.                                         *)
(***************************************************************************)
\* what the server's first n pages hold, in the order it gave them
RECURSIVE PagesInRequestOrder(_)
PagesInRequestOrder(n) ==
    IF n = 0 THEN <<>> ELSE PagesInRequestOrder(n - 1) \o PageItems(n)

FetchedAndReturned(record) ==
    record.pc = "returned" /\ ~record.result[2].response_was_from_cache

\* one request at most is in flight, the request for page n + 1 is not
\* issued before n pages were received, and what is returned is the
\* summaries of the pages' objects in the order of the requests
SequentialSoFar(record) ==
    /\ record.open_scopes <= 1
    /\ record.requests_issued <= record.list_responses + 1
    /\ FetchedAndReturned(record) =>
           Returned(record.result[2].pull_requests) =
               parse_pull_requests_from_github_payload(
                   DictItemsOnly(PagesInRequestOrder(record.result[2].pages_fetched)))

\* a request is issued one at a time, and only when none is in flight
IssuesOneRequestWhenNoneIsInFlight ==
    call'["c1"].requests_issued # call["c1"].requests_issued =>
        /\ call'["c1"].requests_issued = call["c1"].requests_issued + 1
        /\ call["c1"].pc # "awaiting_response"
        /\ call'["c1"].pc = "awaiting_response"

\* C16: within one list_open_pull_requests call at most one HTTP request is
\* in flight at any time, the request for page n+1 is issued only after the
\* response for page n has been received, and the returned items are the
\* pages' items concatenated in request order.
C16_PaginationIsSequential ==
    []SequentialSoFar(call["c1"]) /\ [][IssuesOneRequestWhenNoneIsInFlight]_vars

\* a call that fetched two pages and returned the items of both
C16_Witness ==
    /\ FetchedAndReturned(call["c1"])
    /\ call["c1"].requests_issued = 2 /\ call["c1"].list_responses = 2
    /\ call["c1"].result[2].pages_fetched = 2
    /\ Len(call["c1"].result[2].pull_requests) = 2

(***************************************************************************)
(* C17.  set writes through.                                               *)
(***************************************************************************)
\* the last call was a set of cache_key by store, whose write went through
IsWrittenSetOf(store, cache_key) ==
    /\ cache_call.op = "set"
    /\ cache_call.store = store
    /\ cache_call.key = cache_key
    /\ cache_call.io = "ok"

\* C17: when a set has returned and its write did not fail, the cache file
\* holds exactly the unexpired entries of the in-memory map, the entry just
\* written among them, each with its absolute expiry: for the new entry, the
\* time of the set plus the lifetime in effect.
C17_SetIsWriteThrough ==
    \A store \in Stores, cache_key \in KeyPool :
        IsWrittenSetOf(store, cache_key) =>
            /\ cache_call.result = Returned(JNull)
            /\ FileHoldsUnexpired(cache_file, in_memory_cache[store], now)
            /\ written[store][cache_key][3] > now
            /\ DictHas(cache_file[2][2], HashCacheKey(cache_key))
            /\ DictGet(cache_file[2][2], HashCacheKey(cache_key)) =
                   JDict(<< <<ExpiresKey, JInt(written[store][cache_key][3])>>,
                            <<"value", ValueFor(cache_key)>> >>)

\* k2 has just been set and written while the map still holds k1, whose
\* lifetime is over: the file holds k2 alone
C17_Witness ==
    /\ IsWrittenSetOf("s1", <<"k2">>)
    /\ DictHas(in_memory_cache["s1"], HashCacheKey(<<"k1">>))
    /\ DictGet(in_memory_cache["s1"], HashCacheKey(<<"k1">>))[2] <= now
    /\ DictKeys(cache_file[2][2]) = {HashCacheKey(<<"k2">>)}

(***************************************************************************)
(* C18.  Listing the user's repositories without a token.                  *)
(***************************************************************************)
\* the client's method was called on a client that has no token
ListsWithoutToken ==
    /\ single_call.operation = "list_user_repositories"
    /\ single_call.client_calls = 1
    /\ single_call.github_token = NoToken

\* the endpoint was asked without a token, in a process that has none
AskedWithoutToken ==
    /\ single_call.via_api
    /\ single_call.query_token = NoToken
    /\ Strip(single_call.environment_token) = NoToken

\* C18: with no token configured, listing user repositories never issues a
\* network call: list_user_repositories returns an empty sequence at once,
\* without a request and without a call of the cache, and GET
\* /api/user/repos answers 401 with the detail "GitHub Token is required to
\* list user repositories." without calling the client.
C18_NoTokenNoNetworkCall ==
    /\ ListsWithoutToken =>
           /\ single_call.pc = "returned"
           /\ single_call.result = Returned(JList(<<>>))
           /\ single_call.requests_issued = 0
           /\ single_call.cache_operations = 0
    /\ AskedWithoutToken =>
           /\ single_call.pc = "rejected"
           /\ single_call.api_response =
                  [status_code |-> 401,
                   detail |-> <<"GitHub Token is required to list user repositories.">>]
           /\ single_call.client_calls = 0
           /\ single_call.requests_issued = 0

\* the endpoint has answered 401 to a request without a token, in a process
\* whose GITHUB_TOKEN is white space
C18_Witness ==
    /\ AskedWithoutToken
    /\ single_call.environment_token = <<Blank>>
    /\ single_call.api_response.status_code = 401

\* a client made with a token of white space has returned the empty list
C18_ClientWithoutTokenReturned ==
    /\ ListsWithoutToken
    /\ ~single_call.via_api
    /\ single_call.pc = "returned"

(***************************************************************************)
(* C19.  A successful response whose body is not a list.                   *)
(***************************************************************************)
\* the step is the one in which the call receives such a response
ReceivesNonList(c) == ~call[c].saw_non_list /\ call'[c].saw_non_list

\* no page is counted for the response and no request follows it
EndsThePagination(c) ==
    /\ call'[c].pc \in {"returned", "raised"}
    /\ call'[c].list_responses = call[c].list_responses
    /\ call'[c].requests_issued = call[c].requests_issued

\* the pages collected before the response are in the cache and are returned
StoresAndReturnsTheAggregate(c) ==
    /\ call'[c].pc = "returned"
    /\ call'[c].result[2].response_was_from_cache = FALSE
    /\ call'[c].result[2].pages_fetched = call[c].list_responses
    /\ Returned(call'[c].result[2].pull_requests) =
           parse_pull_requests_from_github_payload(
               DictItemsOnly(PagesInRequestOrder(call[c].list_responses)))
    /\ DictHas(in_memory_cache'[CacheBackend], HashCacheKey(call[c].cache_key))
    /\ DictGet(in_memory_cache'[CacheBackend], HashCacheKey(call[c].cache_key))[1] =
           Aggregate(DictItemsOnly(PagesInRequestOrder(call[c].list_responses)),
                     call[c].list_responses)

\* C19 as stated: a successful response whose body is not a list ends the
\* pagination as end of data: no page is counted for it, no further request
\* is issued, and the aggregate collected so far is written to the cache and
\* returned with response_was_from_cache = false.
C19_NonListBodyIsEndOfData ==
    [][ReceivesNonList("c1") => EndsThePagination("c1") /\ StoresAndReturnsTheAggregate("c1")]_vars

\* What holds: the same, when the cache file can be reached; when it cannot,
\* the pagination ends as well, and the call raises what the set raised.
C19_NonListBodyIsEndOfDataWhenFileInReach ==
    [][ReceivesNonList("c1") =>
           /\ EndsThePagination("c1")
           /\ cache_file # OutOfReach => StoresAndReturnsTheAggregate("c1")
           /\ cache_file = OutOfReach => call'["c1"].pc = "raised"]_vars

\* a call that bypassed the cache received a body that is not a list, and
\* raised the error of the cache instead of returning
C19_Witness ==
    /\ call["c1"].saw_non_list
    /\ call["c1"].bypass_cache
    /\ call["c1"].pc = "raised"
    /\ call["c1"].list_responses = 0

(***************************************************************************)
(* C20.  A page request that fails.                                        *)
(***************************************************************************)
\* what a failed request raises: the four classes of _perform_request, and
\* the error of the transport
RequestErrors ==
    {"GitHubAuthenticationError", "GitHubRepositoryNotFoundError",
     "GitHubRateLimitExceededError", "GitHubApiError", "TransportError"}

\* the step is the one in which a request of the call fails
PageRequestFails(c) == ~call[c].request_failed /\ call'[c].request_failed

\* the call has raised the error of the request, and the only call of the
\* cache it made is the lookup at its start
RaisedWithoutCacheWrite(record) ==
    /\ record.pc = "raised"
    /\ record.result[2].class \in RequestErrors
    /\ record.cache_operations = IF record.bypass_cache THEN 0 ELSE 1
    /\ record.aggregated_items = <<>>

\* C20: if a page request of list_open_pull_requests fails (authentication,
\* not found, rate limit, another API error, or the transport), the call
\* raises and writes nothing to the cache: the in-memory map and the file are
\* as they were, the entry of its key among them, and the items of the pages
\* already fetched are dropped.
C20_FailedFetchLeavesTheCacheAlone ==
    /\ [](call["c1"].request_failed => RaisedWithoutCacheWrite(call["c1"]))
    /\ [][PageRequestFails("c1") =>
              /\ call["c1"].pc = "awaiting_response"
              /\ call'["c1"].cache_operations = call["c1"].cache_operations
              /\ UNCHANGED <<in_memory_cache, cache_file, has_loaded_cache_file, fetched>>]_vars

\* a call fetched one page and was refused the second for the rate limit,
\* while the file held an earlier entry
C20_Witness ==
    /\ call["c1"].request_failed
    /\ call["c1"].pc = "raised"
    /\ call["c1"].result[2].class = "GitHubRateLimitExceededError"
    /\ call["c1"].list_responses = 1
    /\ cache_file = EarlierCacheFile

(***************************************************************************)
(* C21.  A call without a page cap.                                        *)
(***************************************************************************)
InProgressWithoutCap(c) ==
    /\ call[c].pc \in {"awaiting_response", "yielded"}
    /\ call[c].maximum_pages = JNull

\* a call without a cap that returned what it fetched had a last response
\* that was not a list or named no next page the loop could follow
StoppedByTheServerOnly(c) ==
    (FetchedFromServer(c) /\ call[c].maximum_pages = JNull) => ~call[c].every_next_was_usable

MissedAndFetched(c) ==
    /\ ~call[c].bypass_cache
    /\ ~call[c].entry_at_start.found
    /\ call[c].requests_issued >= 1
    /\ FetchedFromServer(c)

\* the value the store holds for the key
ValueInStore(cache_key) == DictGet(in_memory_cache[CacheBackend], HashCacheKey(cache_key))[1]

\* the store holds for the key an aggregate of these pull requests
HoldsAggregateOf(cache_key, summaries) ==
    /\ DictHas(in_memory_cache[CacheBackend], HashCacheKey(cache_key))
    /\ IsDict(ValueInStore(cache_key))
    /\ IsList(JGet(ValueInStore(cache_key), "items", JNull))
    /\ parse_pull_requests_from_github_payload(JGet(ValueInStore(cache_key), "items", JNull)[2])
           = Returned(summaries)

\* C22: nothing keeps two calls for one key from both missing the cache and
\* both asking the server; the entry the store is left with is the one of
\* the call that finished last.
C22_LastFinisherLeavesTheEntry ==
    \A c \in Calls :
        (FetchedFromServer(c) /\ DictHas(fetched, call[c].cache_key)) =>
            HoldsAggregateOf(call[c].cache_key, DictGet(fetched, call[c].cache_key).pull_requests)

\* both calls missed the cache, both asked the server, c1 finished first and
\* c2 last with other data: the store holds what c2 fetched
C22_Witness ==
    /\ MissedAndFetched("c1") /\ MissedAndFetched("c2")
    /\ call["c1"].cache_key = call["c2"].cache_key
    /\ call["c1"].result[2].pull_requests # call["c2"].result[2].pull_requests
    /\ DictGet(fetched, call["c2"].cache_key).pull_requests = call["c2"].result[2].pull_requests
    /\ HoldsAggregateOf(call["c2"].cache_key, call["c2"].result[2].pull_requests)

(***************************************************************************)
(* C23.  A summary of a pull request that is not in the open list.         *)
(***************************************************************************)
\* the endpoint has answered a request whose number is not among the pull
\* requests that list_open_pull_requests returned
AnsweredForMissingNumber ==
    /\ summary_request.pc = "answered"
    /\ call["c1"].pc = "returned"
    /\ ~HasPullRequestNumbered(call["c1"].result[2].pull_requests, summary_request.number)

\* C23 as stated: GET /api/pr/{number}/summary answers 404 with the detail
\* "Pull Request not found in open list" whenever the number is not among the
\* open pull requests that list_open_pull_requests returned.
C23_MissingNumberIsAnswered404 ==
    AnsweredForMissingNumber =>
        /\ summary_request.status_code = 404
        /\ summary_request.detail = <<"Pull Request not found in open list">>

\* What holds: the answer is 500, the 404 being caught by the except clause
\* of the endpoint itself.
C23_MissingNumberIsAnswered500 ==
    AnsweredForMissingNumber =>
        /\ summary_request.status_code = 500
        /\ summary_request.detail # <<"Pull Request not found in open list">>

\* the list held pull request 1 alone, the request was for 7, the answer 500
C23_Witness ==
    /\ AnsweredForMissingNumber
    /\ summary_request.number = 7
    /\ NumbersOfSummaries(call["c1"].result[2].pull_requests) = <<1>>
    /\ summary_request.status_code = 500

(***************************************************************************)
(* C24.  Cached data and the token of the client.                          *)
(***************************************************************************)
\* call c was answered from the cache with an aggregate that a client of
\* another token had fetched
ServedAcrossTokens(c) ==
    /\ ServedFromCache(c)
    /\ call[c].entry_at_start.github_token # call[c].github_token

\* C24 as stated: an aggregate fetched and cached under one token is never
\* returned as a cache hit to a client of another token (or of none) that
\* uses the same cache file and the same query parameters.
C24_CacheDoesNotCrossTokens ==
    \A c \in Calls : ~ServedAcrossTokens(c)

\* What holds: a hit depends on the parameters alone, whoever fetched.
C24_HitIsForTheSameParameters ==
    \A c \in Calls :
        ServedFromCache(c) => call[c].entry_at_start.written_for = ParametersOf(call[c])

\* a client without the reader's token, to which the server gives 404, was
\* handed the pull requests of the private repository from the cache
C24_Witness ==
    \E c \in Calls :
        /\ ServedAcrossTokens(c)
        /\ call[c].github_token # ReaderToken
        /\ call[c].entry_at_start.github_token = ReaderToken
        /\ call[c].requests_issued = 0
        /\ NumbersOfSummaries(call[c].result[2].pull_requests) = <<1>>

(***************************************************************************)
(* C25.  A get after a clear.                                              *)
(***************************************************************************)
\* the call just made is a get of cache_key on store, whose last call that
\* touched the key was a clear
IsGetAfterClear(store, cache_key) ==
    /\ cache_call.op = "get"
    /\ cache_call.store = store
    /\ cache_call.key = cache_key
    /\ written[store][cache_key] = Cleared

\* C25 as stated: after a clear on an instance, a get on that instance
\* gives absent for every key until the key is set again, whatever ran
\* before the clear (nothing at all included) and whether or not the file
\* was deleted.
C25_GetAfterClearIsAbsent ==
    \A store \in Stores, cache_key \in KeyPool :
        IsGetAfterClear(store, cache_key) /\ ~IsRaised(cache_call.result)
            => cache_call.result = Returned(JNull)

\* What holds: a get of a cleared key gives a value only if the instance
\* read the file (which it does once, the clear leaving the loaded flag as it
\* is) and found the value there.
C25_ValueAfterClearIsFromTheFile ==
    \A store \in Stores, cache_key \in KeyPool :
        (/\ IsGetAfterClear(store, cache_key)
         /\ ~IsRaised(cache_call.result)
         /\ cache_call.result # Returned(JNull))
            => /\ file_reads[store] = 1
               /\ DictHas(load_snapshot[store], HashCacheKey(cache_key))
               /\ DictGet(load_snapshot[store], HashCacheKey(cache_key))[1] = cache_call.result[2]

\* the clear was the first call of the instance and could not delete the
\* file; the get that followed loaded the file and gave its entry
C25_Witness ==
    /\ IsGetAfterClear("s1", <<"k1">>)
    /\ cache_call.result = Returned(JStr(<<"old">>))
    /\ file_reads["s1"] = 1
    /\ DictHas(load_snapshot["s1"], HashCacheKey(<<"k1">>))

(***************************************************************************)
(* C26.  A cache hit of list_user_repositories and the call's parameters.  *)
(***************************************************************************)
\* list_user_repositories returned at line 255: with a token, and without
\* a request
IsUserReposCacheHit ==
    /\ single_call.operation = "list_user_repositories"
    /\ single_call.pc = "returned"
    /\ ~HasNoToken(single_call.github_token)
    /\ single_call.requests_issued = 0

\* what a fetch with these query parameters returns and caches
FetchedWith(query_parameters) ==
    Returned(JList(SimplifiedRepos(UserReposOfServer(query_parameters))))

\* the query parameters, with another direction
InDirection(query_parameters, sort_direction) ==
    UserReposQueryParameters(DictGet(query_parameters, "type"),
                             DictGet(query_parameters, "sort"), sort_direction,
                             DictGet(query_parameters, "per_page"))

\* C26 as stated: a cache hit of list_user_repositories is served only when
\* maximum_items, connection_type, sort_field and sort_direction all equal
\* those of the call that wrote the entry; against a server whose answers
\* differ with each of them, a hit is then what a fetch with the call's own
\* parameters gives.
C26_HitIsForTheSameFourParameters ==
    IsUserReposCacheHit => single_call.result = FetchedWith(single_call.query_parameters)

\* What holds: the hit was fetched with the call's connection_type,
\* sort_field and maximum_items, in some direction.
C26_HitIsForTheSameThreeParameters ==
    IsUserReposCacheHit =>
        \E sort_direction \in SortDirections :
            single_call.result = FetchedWith(InDirection(single_call.query_parameters,
                                                         sort_direction))

\* asked in ascending order, the call was handed from the cache the two
\* repositories in descending order
C26_Witness ==
    /\ IsUserReposCacheHit
    /\ DictGet(single_call.query_parameters, "direction") = <<"asc">>
    /\ DictGet(single_call.query_parameters, "per_page") = 2
    /\ single_call.result =
           FetchedWith(UserReposQueryParameters(<<"owner">>, <<"updated">>, <<"desc">>, 2))
    /\ single_call.result # FetchedWith(single_call.query_parameters)

====
